---------------------------- MODULE Spec2Model ----------------------------
(***************************************************************************)
(* The tiered conversational memory engine of "Assignment 6" (main.py,     *)
(* memory_logic.py, api_endpoints.py): the /api/chat handler and the       *)
(* memory functions it calls, over the three MongoDB collections           *)
(* messages, summaries and episodes.                                       *)
(*                                                                         *)
(* Each chat request is a coroutine on one asyncio event loop.  A step of  *)
(* the model is one awaited database operation together with the local    *)
(* computation and the blocking (requests.post) collaborator calls that    *)
(* run, without yielding, before it.  created_at is a logical clock that   *)
(* grows with every insert.  Some specifications call the memory functions *)
(* on their own, one frame per call.                                       *)
(***************************************************************************)
EXTENDS Integers, Sequences, FiniteSets, TLC

(***************************************************************************)
(* Program constants                                                       *)
(***************************************************************************)
SHORT_TERM_N == 16
SUMMARIZE_EVERY_USER_MSGS == 5
TOP_K_EPISODES == 5
SUMMARY_WINDOW == 20
LIFETIME_WINDOW == 5
LIFETIME_GATE == 5
MIN_FACT_LEN == 10
MAX_FACT_LEN == 200
\* importances in tenths: 0.5, 0.8, 0.6, and the 0.4 threshold
IMPORTANCE_BASE == 5
IMPORTANCE_HIGH == 8
IMPORTANCE_MEDIUM == 6
IMPORTANCE_THRESHOLD == 4
STATUS_OK == 200
STATUS_ERROR == 500

(***************************************************************************)
(* Bounds of the model                                                     *)
(***************************************************************************)
\* chat requests served, one at a time, in a behaviour of SpecSeq
MaxTurns == 10
\* chat requests served, one at a time, in a behaviour of SpecFail
MaxFailTurns == 2
\* chat requests served, one at a time, in a behaviour of SpecSum
MaxSumTurns == 5
\* largest limit tried on get_short_term_messages besides SHORT_TERM_N
MaxLimit == 3
\* chat requests served, one at a time, in a behaviour of SpecNull
MaxNullTurns == 5
\* chat requests served, one at a time, in a behaviour of SpecExtract
MaxExtractTurns == 3
\* chat requests served, one at a time, in a behaviour of SpecRank
MaxRankTurns == 2
MaxCandTurns == 2
\* largest top_k tried on get_relevant_episodes besides TOP_K_EPISODES
MaxTopK == 3
\* calls of cosine_similarity_score in a behaviour of SpecCosine
MaxCosineCalls == 2
\* calls of build_prompt in a behaviour of SpecPrompt
MaxPromptCalls == 2
\* chat requests served, one at a time, in a behaviour of SpecTrigger
MaxTriggerTurns == 6
\* chat requests served, one at a time, in a behaviour of SpecLong
MaxLongTurns == 3
\* direct calls of the memory functions in a behaviour of SpecMemory
MaxCalls == 5

(***************************************************************************)
(* Text: a string is a sequence of one-character strings                   *)
(***************************************************************************)
UpperCase == <<"A","B","C","D","E","F","G","H","I","J","K","L","M",
               "N","O","P","Q","R","S","T","U","V","W","X","Y","Z">>
LowerCase == <<"a","b","c","d","e","f","g","h","i","j","k","l","m",
               "n","o","p","q","r","s","t","u","v","w","x","y","z">>
Whitespace == {" "}

\* str.lower() on one character
LowerChar(c) ==
    IF \E i \in 1..Len(UpperCase) : UpperCase[i] = c
    THEN LowerCase[CHOOSE i \in 1..Len(UpperCase) : UpperCase[i] = c]
    ELSE c

\* str.lower()
Lower(s) == [i \in 1..Len(s) |-> LowerChar(s[i])]

\* str.strip(): leading and trailing whitespace removed
Strip(s) ==
    LET keep == {i \in 1..Len(s) : s[i] \notin Whitespace}
    IN  IF keep = {} THEN <<>>
        ELSE LET lo == CHOOSE i \in keep : \A j \in keep : i <= j
                 hi == CHOOSE i \in keep : \A j \in keep : i >= j
             IN  SubSeq(s, lo, hi)

\* str.split('.'): the segments between the dots, empty ones included
RECURSIVE SplitFrom(_, _)
SplitFrom(s, i) ==
    LET dots == {j \in i..Len(s) : s[j] = "."}
    IN  IF dots = {} THEN <<SubSeq(s, i, Len(s))>>
        ELSE LET dot == CHOOSE j \in dots : \A k \in dots : j <= k
             IN  <<SubSeq(s, i, dot - 1)>> \o SplitFrom(s, dot + 1)

Split(s) == SplitFrom(s, 1)

\* word in sentence: substring test
Contains(s, w) ==
    \E i \in 1..(Len(s) - Len(w) + 1) : SubSeq(s, i, i + Len(w) - 1) = w

HighKeywords == {
    <<"i","m","p","o","r","t","a","n","t">>,
    <<"r","e","m","e","m","b","e","r">>,
    <<"a","l","w","a","y","s">>,
    <<"n","e","v","e","r">>,
    <<"l","o","v","e">>,
    <<"h","a","t","e">> }

MediumKeywords == {
    <<"l","i","k","e">>,
    <<"p","r","e","f","e","r">>,
    <<"w","a","n","t">>,
    <<"n","e","e","d">> }

(***************************************************************************)
(* The user messages the model sends, by number                            *)
(***************************************************************************)
\* "I love spicy food. I visited Tokyo last year."
MsgFood == <<"I"," ","l","o","v","e"," ","s","p","i","c","y"," ","f","o","o","d",
             "."," ","I"," ","v","i","s","i","t","e","d"," ","T","o","k","y","o",
             " ","l","a","s","t"," ","y","e","a","r",".">>
\* "hi."
MsgHi == <<"h","i",".">>


\* n times the character c
Repeat(c, n) == [i \in 1..n |-> c]

\* four sentences at the edges of the length test: 10 characters between
\* spaces, 11 characters, 199 characters between spaces, 200 characters
MsgBounds ==
    <<" ", " ">> \o Repeat("a", 10) \o <<" ", ".">> \o
    Repeat("b", 11) \o <<".">> \o
    <<" ">> \o Repeat("c", 199) \o <<" ", " ", ".">> \o
    Repeat("d", 200)
\* "hello you. 0123456789"
MsgTiny == <<"h","e","l","l","o"," ","y","o","u","."," ","0","1","2","3","4",
           "5","6","7","8","9">>
\* "I LOVE what I need here. I prefer green tea. The sky is quite blue. My gloves are warm. I would like to remember it"
MsgKeywords ==
    <<"I"," ","L","O","V","E"," ","w","h","a","t"," ","I"," ","n","e","e",
      "d"," ","h","e","r","e","."," ","I"," ","p","r","e","f","e","r"," ",
      "g","r","e","e","n"," ","t","e","a","."," ","T","h","e"," ","s","k",
      "y"," ","i","s"," ","q","u","i","t","e"," ","b","l","u","e","."," ",
      "M","y"," ","g","l","o","v","e","s"," ","a","r","e"," ","w","a","r",
      "m","."," ","I"," ","w","o","u","l","d"," ","l","i","k","e"," ","t",
      "o"," ","r","e","m","e","m","b","e","r"," ","i","t">>

MessageTexts == <<MsgFood, MsgHi, MsgBounds, MsgTiny, MsgKeywords>>
MessageText(m) == MessageTexts[m]

(***************************************************************************)
(* Texts other than user messages                                          *)
(***************************************************************************)
\* Python's None where a text is expected
None == [kind |-> "none", id |-> 0]
\* the string get_ollama_response returns when the call fails
APOLOGY == [kind |-> "apology", id |-> 0]
\* the empty string
EMPTY == [kind |-> "empty", id |-> 0]
\* the text of user message number m
UserText(m) == [kind |-> "user", id |-> m]
\* the n-th text the generation service produced
LlmText(n) == [kind |-> "llm", id |-> n]

\* the system primer chat passes to build_prompt
SYSTEM_PRIMER == [kind |-> "primer", id |-> 0]

\* session_id of a lifetime summary
NoSession == "None"

(***************************************************************************)
(* Embeddings: vectors of integers                                         *)
(***************************************************************************)
CountChar(s, c) == Cardinality({i \in 1..Len(s) : s[i] = c})

\* what the embedding service (EMBED_MODEL) answers for a text: three
\* components stand for the model's dimension
Embedding(s) ==
    <<(CountChar(s, "o") % 3) + 1, (CountChar(s, " ") % 3) + 1,
      (CountChar(s, "e") % 3) + 1>>

\* np.random.rand(384).tolist(): the vectors the fallback may draw; two
\* components stand for its 384, which is not the dimension of EMBED_MODEL
RandomVectors == {<<1, 2>>, <<2, 1>>}

RECURSIVE DotFrom(_, _, _)
DotFrom(a, b, i) ==
    IF i > Len(a) THEN 0 ELSE a[i] * b[i] + DotFrom(a, b, i + 1)

\* the dot product of two vectors of one length
Dot(a, b) == DotFrom(a, b, 1)

\* cosine similarity with no try/except around it: vectors of different
\* lengths or of norm 0 give no number (a zero denominator)
cosine_similarity_unguarded(a, b) ==
    IF Len(a) # Len(b) THEN [num |-> 0, den |-> 0]
    ELSE [num |-> Dot(a, b) * Dot(a, b), den |-> Dot(a, a) * Dot(b, b)]

\* cosine similarity as a fraction: the square of the cosine with the sign of
\* the cosine; 0 when the lengths differ (the ValueError is caught) or a norm
\* is 0
cosine_similarity_score(a, b) ==
    IF Len(a) # Len(b) \/ Dot(a, a) = 0 \/ Dot(b, b) = 0
    THEN [num |-> 0, den |-> 1]
    ELSE [num |-> IF Dot(a, b) >= 0 THEN Dot(a, b) * Dot(a, b)
                  ELSE 0 - Dot(a, b) * Dot(a, b),
          den |-> Dot(a, a) * Dot(b, b)]

SimLess(x, y) == x.num * y.den < y.num * x.den

(***************************************************************************)
(* Sequences                                                               *)
(***************************************************************************)
Min(a, b) == IF a < b THEN a ELSE b

Reverse(q) == [i \in 1..Len(q) |-> q[Len(q) + 1 - i]]

\* cursor.limit(n).to_list(n)
Limit(q, n) == SubSeq(q, 1, Min(n, Len(q)))

\* cursor.sort("created_at", -1)
RECURSIVE SortCreatedDesc(_)
SortCreatedDesc(q) ==
    IF q = <<>> THEN <<>>
    ELSE LET i == CHOOSE i \in 1..Len(q) :
                      \A j \in 1..Len(q) : q[j].created_at <= q[i].created_at
             rest == [k \in 1..(Len(q) - 1) |-> IF k < i THEN q[k] ELSE q[k + 1]]
         IN  <<q[i]>> \o SortCreatedDesc(rest)

\* a descending sort that is not stable: of equal keys the last comes first
RECURSIVE SortSimilarityUnstable(_)
SortSimilarityUnstable(q) ==
    IF q = <<>> THEN <<>>
    ELSE LET i == CHOOSE i \in 1..Len(q) :
                      /\ \A j \in 1..Len(q) : ~SimLess(q[i].similarity, q[j].similarity)
                      /\ \A j \in (i + 1)..Len(q) : SimLess(q[j].similarity, q[i].similarity)
             rest == [k \in 1..(Len(q) - 1) |-> IF k < i THEN q[k] ELSE q[k + 1]]
         IN  <<q[i]>> \o SortSimilarityUnstable(rest)

\* list.sort(key=similarity, reverse=True): stable, equal keys keep their order
RECURSIVE SortSimilarityDesc(_)
SortSimilarityDesc(q) ==
    IF q = <<>> THEN <<>>
    ELSE LET i == CHOOSE i \in 1..Len(q) :
                      /\ \A j \in 1..Len(q) : ~SimLess(q[i].similarity, q[j].similarity)
                      /\ \A j \in 1..(i - 1) : SimLess(q[j].similarity, q[i].similarity)
             rest == [k \in 1..(Len(q) - 1) |-> IF k < i THEN q[k] ELSE q[k + 1]]
         IN  <<q[i]>> \o SortSimilarityDesc(rest)

(***************************************************************************)
(* State                                                                   *)
(***************************************************************************)
VARIABLES
    messages,    \* the messages collection, in insertion order
    summaries,   \* the summaries collection, in insertion order
    episodes,    \* the episodes collection, in insertion order
    clock,       \* datetime.utcnow() of the last insert
    generated,   \* texts the generation service has produced so far
    served,      \* chat requests received so far
    req          \* the chat coroutines: one record of locals per slot

vars == <<messages, summaries, episodes, clock, generated, served, req>>

Users == {"u1", "u2"}
Sessions == {"s1", "s2"}
\* the coroutines that may overlap
Slots == {1, 2}

\* the requests clients send: user_id, session_id, message number
Inputs == {<<"u1", "s1", 2>>, <<"u1", "s2", 2>>, <<"u2", "s1", 1>>}

NoTurn == [user_id |-> "", session_id |-> "", role |-> "", content |-> None,
           created_at |-> 0]

\* a slot with no coroutine in it
IdleRequest ==
    [pc |-> "idle", user_id |-> "", session_id |-> "", message |-> 0,
     short_term_messages |-> <<>>,
     long_term_summaries |-> [session |-> None, lifetime |-> None],
     sentences |-> <<>>, message_embedding |-> <<>>, relevant_episodes |-> <<>>,
     reply |-> None,
     recent_messages |-> <<>>, session_summaries |-> <<>>,
     status |-> 0,
     \* the function the frame was entered at ("chat" for a request), the
     \* arguments of a direct call that are not named above, and what the
     \* memory function called last returned
     entry |-> "", top_k |-> 0, embedding1 |-> <<>>, embedding2 |-> <<>>,
     returned |-> None,
     \* history: the summarizations this turn has called
     called |-> {},
     \* history, not program state: what went wrong in this turn
     failed_at |-> "", generation_failed |-> FALSE, embedding_failed |-> FALSE,
     summary_failed |-> FALSE,
     \* history: the collections' sizes when the request arrived, the user Turn
     \* it stored, and for each Episode it stored whether the vector is a fallback
     ledger_at_start |-> 0, episodes_at_start |-> 0, user_turn |-> NoTurn,
     fallbacks |-> <<>>]

Running(r) == req[r].pc \notin {"idle", "done"}

\* the collections are empty: a new database
Init ==
    /\ messages = <<>>
    /\ summaries = <<>>
    /\ episodes = <<>>
    /\ clock = 0
    /\ generated = 0
    /\ served = 0
    /\ req = [r \in Slots |-> IdleRequest]

(***************************************************************************)
(* The memory functions                                                    *)
(***************************************************************************)
\* find({"user_id": u, "session_id": s}) on a messages collection
FindMessagesIn(coll, u, s) ==
    SelectSeq(coll, LAMBDA d : d.user_id = u /\ d.session_id = s)

FindMessages(u, s) == FindMessagesIn(messages, u, s)

\* save_message stamping its document with a time before every earlier one
MessageDocBackdated(u, s, role, content) ==
    [user_id |-> u, session_id |-> s, role |-> role, content |-> content,
     created_at |-> 0 - (clock + 1)]

\* the document save_message inserts
MessageDoc(u, s, role, content) ==
    [user_id |-> u, session_id |-> s, role |-> role, content |-> content,
     created_at |-> clock + 1]

get_short_term_messages_in(coll, u, s, limit) ==
    Reverse(Limit(SortCreatedDesc(FindMessagesIn(coll, u, s)), limit))

\* get_short_term_messages without the final reversal
get_short_term_messages_newest_first(u, s, limit) ==
    Limit(SortCreatedDesc(FindMessagesIn(messages, u, s)), limit)

get_short_term_messages(u, s, limit) == get_short_term_messages_in(messages, u, s, limit)

\* find_one sorting by created_at ascending
OldestText(docs) ==
    IF docs = <<>> THEN None ELSE Reverse(SortCreatedDesc(docs))[1].text

\* find_one(filter, sort=[("created_at", -1)]) on the summaries, as text or None
LatestText(docs) ==
    IF docs = <<>> THEN None ELSE SortCreatedDesc(docs)[1].text

SessionSummariesIn(coll, u, s) ==
    SelectSeq(coll, LAMBDA d : d.user_id = u /\ d.session_id = s /\ d.scope = "session")

LifetimeSummariesIn(coll, u) ==
    SelectSeq(coll, LAMBDA d : d.user_id = u /\ d.scope = "user")

latest_session_summary(u, s) == LatestText(SessionSummariesIn(summaries, u, s))

latest_lifetime_summary(u) == LatestText(LifetimeSummariesIn(summaries, u))

\* the importance test with its two keyword branches swapped
ImportanceMediumFirst(sentence) ==
    IF \E w \in MediumKeywords : Contains(Lower(sentence), w) THEN IMPORTANCE_MEDIUM
    ELSE IF \E w \in HighKeywords : Contains(Lower(sentence), w) THEN IMPORTANCE_HIGH
    ELSE IMPORTANCE_BASE

\* the importance of a stripped sentence, in tenths
Importance(sentence) ==
    IF \E w \in HighKeywords : Contains(Lower(sentence), w) THEN IMPORTANCE_HIGH
    ELSE IF \E w \in MediumKeywords : Contains(Lower(sentence), w) THEN IMPORTANCE_MEDIUM
    ELSE IMPORTANCE_BASE

\* extract_episodes with <= and >= in its length test
CandidatesInclusive(message) ==
    LET stripped == [i \in 1..Len(Split(message)) |-> Strip(Split(message)[i])]
        scored == [i \in 1..Len(stripped) |->
                      [fact |-> stripped[i], importance |-> Importance(stripped[i])]]
    IN  SelectSeq(scored, LAMBDA c : /\ Len(c.fact) >= MIN_FACT_LEN
                                      /\ Len(c.fact) <= MAX_FACT_LEN
                                      /\ c.importance > IMPORTANCE_THRESHOLD)

\* extract_episodes returning from inside its loop, after the first Episode
CandidatesFirstOnly(message) ==
    LET stripped == [i \in 1..Len(Split(message)) |-> Strip(Split(message)[i])]
        scored == [i \in 1..Len(stripped) |->
                      [fact |-> stripped[i], importance |-> Importance(stripped[i])]]
    IN  Limit(SelectSeq(scored, LAMBDA c : /\ Len(c.fact) > MIN_FACT_LEN
                                            /\ Len(c.fact) < MAX_FACT_LEN
                                            /\ c.importance > IMPORTANCE_THRESHOLD), 1)

\* the sentences of a message extract_episodes stores, with their importance
Candidates(message) ==
    LET stripped == [i \in 1..Len(Split(message)) |-> Strip(Split(message)[i])]
        scored == [i \in 1..Len(stripped) |->
                      [fact |-> stripped[i], importance |-> Importance(stripped[i])]]
    IN  SelectSeq(scored, LAMBDA c : /\ Len(c.fact) > MIN_FACT_LEN
                                      /\ Len(c.fact) < MAX_FACT_LEN
                                      /\ c.importance > IMPORTANCE_THRESHOLD)

\* extract_episodes' candidates for each message the model sends
Extracted == [m \in 1..Len(MessageTexts) |-> Candidates(MessageTexts[m])]

EpisodeDoc(u, s, c, embedding) ==
    [user_id |-> u, session_id |-> s, fact |-> c.fact, importance |-> c.importance,
     embedding |-> embedding, created_at |-> clock + 1]

\* find({}) on an episodes collection: the user_id filter is missing
FindEpisodesAnyUser(coll, u) == coll

\* find_one instead of find: the scan stops at the user's first Episode
FindEpisodesOne(coll, u) == Limit(SelectSeq(coll, LAMBDA d : d.user_id = u), 1)

\* find({"user_id": u}) on an episodes collection
FindEpisodesIn(coll, u) == SelectSeq(coll, LAMBDA d : d.user_id = u)

FindEpisodes(u) == FindEpisodesIn(episodes, u)

get_relevant_episodes_in(coll, u, message_embedding, top_k) ==
    LET found == FindEpisodesIn(coll, u)
        scored == [i \in 1..Len(found) |->
                      [episode |-> found[i],
                       similarity |-> cosine_similarity_score(message_embedding,
                                                              found[i].embedding)]]
        sorted == SortSimilarityDesc(scored)
    IN  [i \in 1..Min(top_k, Len(sorted)) |-> sorted[i].episode]

get_relevant_episodes(u, message_embedding, top_k) ==
    get_relevant_episodes_in(episodes, u, message_embedding, top_k)

\* count_documents({"user_id": u, "session_id": s, "role": "user"})
user_message_count_in(coll, u, s) ==
    Len(SelectSeq(coll, LAMBDA d : d.user_id = u /\ d.session_id = s /\ d.role = "user"))

user_message_count(u, s) == user_message_count_in(messages, u, s)

\* should_summarize with >= for the modulo test
should_summarize_from_threshold(u, s) ==
    user_message_count(u, s) >= SUMMARIZE_EVERY_USER_MSGS

\* should_summarize counting the replies instead of the user messages
should_summarize_replies(u, s) ==
    Len(SelectSeq(messages, LAMBDA d : d.user_id = u /\ d.session_id = s
                                        /\ d.role = "assistant"))
        % SUMMARIZE_EVERY_USER_MSGS = 0

should_summarize(u, s) == user_message_count(u, s) % SUMMARIZE_EVERY_USER_MSGS = 0

\* generate_session_summary sorting by created_at ascending
SummaryWindowOldest(u, s) ==
    Limit(Reverse(SortCreatedDesc(FindMessages(u, s))), SUMMARY_WINDOW)

\* the messages generate_session_summary reads, newest first
SummaryWindow(u, s) == Limit(SortCreatedDesc(FindMessages(u, s)), SUMMARY_WINDOW)

SummaryDoc(u, s, scope, text) ==
    [user_id |-> u, session_id |-> s, scope |-> scope, text |-> text,
     created_at |-> clock + 1]

\* the session summaries update_lifetime_summary reads, newest first
LifetimeWindowIn(coll, u) ==
    Limit(SortCreatedDesc(SelectSeq(coll,
              LAMBDA d : d.user_id = u /\ d.scope = "session")), LIFETIME_WINDOW)

LifetimeWindow(u) == LifetimeWindowIn(summaries, u)

\* the gate counting the assistant reply with the window
lifetime_gate_with_reply(short_term_messages) ==
    (Len(short_term_messages) + 1) % LIFETIME_GATE = 0

\* chat: the gate on update_lifetime_summary
lifetime_gate(short_term_messages) == Len(short_term_messages) % LIFETIME_GATE = 0

\* if text: a text that is neither None nor ""
Truthy(text) == text # None /\ text # EMPTY

\* the "role: content" lines of a list of messages
ConversationLines(msgs) ==
    [i \in 1..Len(msgs) |-> [prefix |-> msgs[i].role, text |-> msgs[i].content]]

\* generate_session_summary: the conversation its prompt holds, the lines of
\* reversed(recent_messages)
SummaryConversation(recent_messages) == ConversationLines(Reverse(recent_messages))

\* the "- fact" lines of a list of Episodes
FactLines(facts) == [i \in 1..Len(facts) |-> [prefix |-> "-", text |-> facts[i].fact]]

\* build_prompt with the two Digest sections in the other order
build_prompt_session_first(system_primer, long_term_summaries, short_term_messages, current_message, episodic_facts) ==
    <<[header |-> "", lines |-> <<[prefix |-> "", text |-> system_primer]>>]>>
    \o (IF Truthy(long_term_summaries.session)
        THEN <<[header |-> "Session Context: ",
                lines |-> <<[prefix |-> "", text |-> long_term_summaries.session]>>]>>
        ELSE <<>>)
    \o (IF Truthy(long_term_summaries.lifetime)
        THEN <<[header |-> "User Profile: ",
                lines |-> <<[prefix |-> "", text |-> long_term_summaries.lifetime]>>]>>
        ELSE <<>>)
    \o (IF short_term_messages # <<>>
        THEN <<[header |-> "Recent conversation:",
                lines |-> ConversationLines(short_term_messages)]>>
        ELSE <<>>)
    \o <<[header |-> "User: ", lines |-> <<[prefix |-> "", text |-> current_message]>>]>>
    \o (IF episodic_facts # <<>>
        THEN <<[header |-> "Relevant facts:", lines |-> FactLines(episodic_facts)]>>
        ELSE <<>>)

\* build_prompt: prompt_parts, the sections "\n\n".join puts one after the
\* other, each with the text before its content and the lines of its content
build_prompt(system_primer, long_term_summaries, short_term_messages, current_message, episodic_facts) ==
    <<[header |-> "", lines |-> <<[prefix |-> "", text |-> system_primer]>>]>>
    \o (IF Truthy(long_term_summaries.lifetime)
        THEN <<[header |-> "User Profile: ",
                lines |-> <<[prefix |-> "", text |-> long_term_summaries.lifetime]>>]>>
        ELSE <<>>)
    \o (IF Truthy(long_term_summaries.session)
        THEN <<[header |-> "Session Context: ",
                lines |-> <<[prefix |-> "", text |-> long_term_summaries.session]>>]>>
        ELSE <<>>)
    \o (IF short_term_messages # <<>>
        THEN <<[header |-> "Recent conversation:",
                lines |-> ConversationLines(short_term_messages)]>>
        ELSE <<>>)
    \o <<[header |-> "User: ", lines |-> <<[prefix |-> "", text |-> current_message]>>]>>
    \o (IF episodic_facts # <<>>
        THEN <<[header |-> "Relevant facts:", lines |-> FactLines(episodic_facts)]>>
        ELSE <<>>)

(***************************************************************************)
(* POST /api/chat, one action per awaited step                             *)
(***************************************************************************)
\* the steps of chat that await the document store
StorageSteps == {"save_user", "get_short_term", "get_session_summary",
                 "get_lifetime_summary", "extract", "get_relevant",
                 "save_assistant", "should_summarize", "summary_find",
                 "summary_insert", "lifetime_find", "lifetime_insert"}

\* where the frame goes after generate_session_summary returns: chat tests
\* its gate on update_lifetime_summary, a direct call is over
AfterSessionSummary(r) ==
    IF req[r].entry # "chat" THEN "done"
    ELSE IF lifetime_gate(req[r].short_term_messages) THEN "lifetime_find"
    ELSE "respond"

\* where the frame goes after update_lifetime_summary returns
AfterLifetimeSummary(r) == IF req[r].entry # "chat" THEN "done" ELSE "respond"

\* a request arrives and its coroutine starts in a free slot
Receive(r, u, s, m) ==
    /\ ~Running(r)
    /\ req' = [req EXCEPT ![r] = [IdleRequest EXCEPT !.pc = "save_user",
                                      !.entry = "chat",
                                      !.user_id = u, !.session_id = s, !.message = m,
                                      !.ledger_at_start = Len(messages),
                                      !.episodes_at_start = Len(episodes)]]
    /\ served' = served + 1
    /\ UNCHANGED <<messages, summaries, episodes, clock, generated>>

\* await save_message(user_id, session_id, "user", message)
SaveUser(r) ==
    /\ req[r].pc = "save_user"
    /\ messages' = Append(messages,
           MessageDoc(req[r].user_id, req[r].session_id, "user", UserText(req[r].message)))
    /\ clock' = clock + 1
    /\ req' = [req EXCEPT ![r].pc = "get_short_term",
                          ![r].user_turn = MessageDoc(req[r].user_id, req[r].session_id,
                                                      "user", UserText(req[r].message))]
    /\ UNCHANGED <<summaries, episodes, generated, served>>

\* short_term_messages = await get_short_term_messages(user_id, session_id)
GetShortTerm(r) ==
    /\ req[r].pc = "get_short_term"
    /\ req' = [req EXCEPT ![r].pc = "get_session_summary",
                          ![r].short_term_messages =
                              get_short_term_messages(req[r].user_id, req[r].session_id,
                                                      SHORT_TERM_N)]
    /\ UNCHANGED <<messages, summaries, episodes, clock, generated, served>>

\* get_long_term_summaries: the first find_one
GetSessionSummary(r) ==
    /\ req[r].pc = "get_session_summary"
    /\ req' = [req EXCEPT ![r].pc = "get_lifetime_summary",
                          ![r].long_term_summaries.session =
                              latest_session_summary(req[r].user_id, req[r].session_id)]
    /\ UNCHANGED <<messages, summaries, episodes, clock, generated, served>>

\* get_long_term_summaries: the second find_one; then, in chat,
\* extract_episodes splits the message and keeps the sentences it will store
GetLifetimeSummary(r) ==
    /\ req[r].pc = "get_lifetime_summary"
    /\ LET todo == IF req[r].entry = "chat" THEN Extracted[req[r].message] ELSE <<>>
       IN  req' = [req EXCEPT ![r].pc = IF req[r].entry # "chat" THEN "done"
                                        ELSE IF todo = <<>> THEN "get_relevant"
                                        ELSE "extract",
                              ![r].long_term_summaries.lifetime =
                                  latest_lifetime_summary(req[r].user_id),
                              ![r].sentences = todo]
    /\ UNCHANGED <<messages, summaries, episodes, clock, generated, served>>

\* extract_episodes, one sentence: get_embedding, then await insert_one
StoreEpisode(r, embedding, fallback) ==
    /\ req[r].pc = "extract"
    /\ episodes' = Append(episodes,
           EpisodeDoc(req[r].user_id, req[r].session_id, Head(req[r].sentences), embedding))
    /\ clock' = clock + 1
    /\ req' = [req EXCEPT ![r].pc = IF Len(req[r].sentences) = 1
                                    THEN "get_relevant" ELSE "extract",
                          ![r].sentences = Tail(req[r].sentences),
                          ![r].embedding_failed = req[r].embedding_failed \/ fallback,
                          ![r].fallbacks = Append(req[r].fallbacks, fallback)]
    /\ UNCHANGED <<messages, summaries, generated, served>>

\* the embedding service answers
ExtractEpisode(r) ==
    /\ req[r].pc = "extract"
    /\ StoreEpisode(r, Embedding(Head(req[r].sentences).fact), FALSE)

\* the embedding failure is not caught: the turn ends in an error
ExtractEpisodeRaises(r) ==
    /\ req[r].pc = "extract"
    /\ req' = [req EXCEPT ![r].pc = "done", ![r].status = STATUS_ERROR]
    /\ UNCHANGED <<messages, summaries, episodes, clock, generated, served>>

\* the embedding service fails: get_embedding returns a random vector
ExtractEpisodeFallback(r) ==
    /\ req[r].pc = "extract"
    /\ \E v \in RandomVectors : StoreEpisode(r, v, TRUE)

\* relevant_episodes = await get_relevant_episodes(user_id, message)
Retrieve(r, message_embedding, fallback) ==
    /\ req[r].pc = "get_relevant"
    /\ req' = [req EXCEPT ![r].pc = "generate",
                          ![r].message_embedding = message_embedding,
                          ![r].relevant_episodes =
                              get_relevant_episodes(req[r].user_id, message_embedding,
                                                    TOP_K_EPISODES),
                          ![r].embedding_failed = req[r].embedding_failed \/ fallback]
    /\ UNCHANGED <<messages, summaries, episodes, clock, generated, served>>

GetRelevant(r) == Retrieve(r, Embedding(MessageText(req[r].message)), FALSE)

GetRelevantFallback(r) == \E v \in RandomVectors : Retrieve(r, v, TRUE)

\* reply = await get_ollama_response(prompt): the service answers
Generate(r) ==
    /\ req[r].pc = "generate"
    /\ generated' = generated + 1
    /\ req' = [req EXCEPT ![r].pc = "save_assistant", ![r].reply = LlmText(generated + 1)]
    /\ UNCHANGED <<messages, summaries, episodes, clock, served>>

\* the service fails: get_ollama_response catches it and returns the apology
GenerateFails(r) ==
    /\ req[r].pc = "generate"
    /\ req' = [req EXCEPT ![r].pc = "save_assistant", ![r].reply = APOLOGY,
                          ![r].generation_failed = TRUE]
    /\ UNCHANGED <<messages, summaries, episodes, clock, generated, served>>

\* chat without its second save_message
SaveAssistantUnsaved(r) ==
    /\ req[r].pc = "save_assistant"
    /\ req' = [req EXCEPT ![r].pc = "should_summarize"]
    /\ UNCHANGED <<messages, summaries, episodes, clock, generated, served>>

\* the second save_message repeated: the reply is stored twice
SaveAssistantTwice(r) ==
    /\ req[r].pc = "save_assistant"
    /\ messages' = Append(Append(messages,
           MessageDoc(req[r].user_id, req[r].session_id, "assistant", req[r].reply)),
           [MessageDoc(req[r].user_id, req[r].session_id, "assistant", req[r].reply)
               EXCEPT !.created_at = clock + 2])
    /\ clock' = clock + 2
    /\ req' = [req EXCEPT ![r].pc = "should_summarize"]
    /\ UNCHANGED <<summaries, episodes, generated, served>>

\* await save_message(user_id, session_id, "assistant", reply)
SaveAssistant(r) ==
    /\ req[r].pc = "save_assistant"
    /\ messages' = Append(messages,
           MessageDoc(req[r].user_id, req[r].session_id, "assistant", req[r].reply))
    /\ clock' = clock + 1
    /\ req' = [req EXCEPT ![r].pc = "should_summarize"]
    /\ UNCHANGED <<summaries, episodes, generated, served>>

\* if await should_summarize(user_id, session_id)
ShouldSummarize(r) ==
    /\ req[r].pc = "should_summarize"
    /\ req' = [req EXCEPT ![r].pc =
                  IF should_summarize(req[r].user_id, req[r].session_id)
                  THEN "summary_find" ELSE "respond"]
    /\ UNCHANGED <<messages, summaries, episodes, clock, generated, served>>

\* generate_session_summary without its test for an empty window
SummaryFindUnguarded(r) ==
    /\ req[r].pc = "summary_find"
    /\ req' = [req EXCEPT ![r].pc = "summary_insert",
                          ![r].recent_messages =
                              SummaryWindow(req[r].user_id, req[r].session_id),
                          ![r].called = @ \cup {"generate_session_summary"}]
    /\ UNCHANGED <<messages, summaries, episodes, clock, generated, served>>

\* generate_session_summary: the find; an empty window returns ""
SummaryFind(r) ==
    /\ req[r].pc = "summary_find"
    /\ LET window == SummaryWindow(req[r].user_id, req[r].session_id)
       IN  req' = [req EXCEPT ![r].pc = IF window = <<>> THEN AfterSessionSummary(r)
                                        ELSE "summary_insert",
                              ![r].recent_messages = window,
                              ![r].returned = IF window = <<>> THEN EMPTY ELSE @,
                              ![r].called = @ \cup {"generate_session_summary"}]
    /\ UNCHANGED <<messages, summaries, episodes, clock, generated, served>>

\* generate_session_summary: get_ollama_response, then await insert_one
StoreSessionSummary(r, text) ==
    /\ req[r].pc = "summary_insert"
    /\ summaries' = Append(summaries,
           SummaryDoc(req[r].user_id, req[r].session_id, "session", text))
    /\ clock' = clock + 1
    /\ UNCHANGED <<messages, episodes, served>>

SummaryInsert(r) ==
    /\ StoreSessionSummary(r, LlmText(generated + 1))
    /\ generated' = generated + 1
    /\ req' = [req EXCEPT ![r].pc = AfterSessionSummary(r),
                          ![r].returned = LlmText(generated + 1)]

\* the generation service fails inside generate_session_summary
SummaryInsertApology(r) ==
    /\ StoreSessionSummary(r, APOLOGY)
    /\ generated' = generated
    /\ req' = [req EXCEPT ![r].pc = AfterSessionSummary(r), ![r].summary_failed = TRUE,
                          ![r].returned = APOLOGY]

\* update_lifetime_summary: the find; no session summary returns ""
LifetimeFind(r) ==
    /\ req[r].pc = "lifetime_find"
    /\ LET window == LifetimeWindow(req[r].user_id)
       IN  req' = [req EXCEPT ![r].pc = IF window = <<>> THEN AfterLifetimeSummary(r)
                                        ELSE "lifetime_insert",
                              ![r].session_summaries = window,
                              ![r].returned = IF window = <<>> THEN EMPTY ELSE @,
                              ![r].called = @ \cup {"update_lifetime_summary"}]
    /\ UNCHANGED <<messages, summaries, episodes, clock, generated, served>>

\* update_lifetime_summary: get_ollama_response, then await insert_one
StoreLifetimeSummary(r, text) ==
    /\ req[r].pc = "lifetime_insert"
    /\ summaries' = Append(summaries,
           SummaryDoc(req[r].user_id, NoSession, "user", text))
    /\ clock' = clock + 1
    /\ UNCHANGED <<messages, episodes, served>>

LifetimeInsert(r) ==
    /\ StoreLifetimeSummary(r, LlmText(generated + 1))
    /\ generated' = generated + 1
    /\ req' = [req EXCEPT ![r].pc = AfterLifetimeSummary(r),
                          ![r].returned = LlmText(generated + 1)]

\* the generation service fails inside update_lifetime_summary
LifetimeInsertApology(r) ==
    /\ StoreLifetimeSummary(r, APOLOGY)
    /\ generated' = generated
    /\ req' = [req EXCEPT ![r].pc = AfterLifetimeSummary(r), ![r].summary_failed = TRUE,
                          ![r].returned = APOLOGY]

\* return ChatResponse(reply=reply, memory_used=memory_used)
Respond(r) ==
    /\ req[r].pc = "respond"
    /\ req' = [req EXCEPT ![r].pc = "done", ![r].status = STATUS_OK]
    /\ UNCHANGED <<messages, summaries, episodes, clock, generated, served>>

\* memory_used with the Digests looked up again when the response is prepared
MemoryUsedFresh(r) ==
    [short_term_count |-> Len(req[r].short_term_messages),
     long_term_summary |-> latest_lifetime_summary(req[r].user_id),
     session_summary |-> latest_session_summary(req[r].user_id, req[r].session_id),
     episodic_facts |-> [i \in 1..Len(req[r].relevant_episodes) |->
                            [fact |-> req[r].relevant_episodes[i].fact,
                             importance |-> req[r].relevant_episodes[i].importance]]]

\* memory_used, the snapshot chat returns with the reply
MemoryUsed(r) ==
    [short_term_count |-> Len(req[r].short_term_messages),
     long_term_summary |-> req[r].long_term_summaries.lifetime,
     session_summary |-> req[r].long_term_summaries.session,
     episodic_facts |-> [i \in 1..Len(req[r].relevant_episodes) |->
                            [fact |-> req[r].relevant_episodes[i].fact,
                             importance |-> req[r].relevant_episodes[i].importance]]]

\* what the caller of chat receives: the reply with 200, no reply with 500
Response(r) ==
    [status |-> req[r].status,
     reply |-> IF req[r].status = STATUS_OK THEN req[r].reply ELSE None]

\* the failed store operation is ignored and the turn returns what it has
StorageFailsSilently(r) ==
    /\ req[r].pc \in StorageSteps
    /\ req' = [req EXCEPT ![r].pc = "done", ![r].status = STATUS_OK,
                          ![r].failed_at = req[r].pc]
    /\ UNCHANGED <<messages, summaries, episodes, clock, generated, served>>

\* the error handler undoes the turn's user Turn
StorageFailsRollback(r) ==
    /\ req[r].pc \in StorageSteps
    /\ messages' = SelectSeq(messages, LAMBDA d : d # req[r].user_turn)
    /\ req' = [req EXCEPT ![r].pc = "done", ![r].status = STATUS_ERROR,
                          ![r].failed_at = req[r].pc]
    /\ UNCHANGED <<summaries, episodes, clock, generated, served>>

\* an awaited store operation raises: except Exception -> HTTPException(500)
StorageFails(r) ==
    /\ req[r].pc \in StorageSteps
    /\ req' = [req EXCEPT ![r].pc = "done", ![r].status = STATUS_ERROR,
                          ![r].failed_at = req[r].pc]
    /\ UNCHANGED <<messages, summaries, episodes, clock, generated, served>>

(***************************************************************************)
(* The memory functions called on their own, one frame per call            *)
(***************************************************************************)
Call(r, entry, pc, u, s) ==
    /\ ~Running(r)
    /\ req' = [req EXCEPT ![r] = [IdleRequest EXCEPT !.pc = pc, !.entry = entry,
                                      !.user_id = u, !.session_id = s]]
    /\ served' = served + 1
    /\ UNCHANGED <<messages, summaries, episodes, clock, generated>>

\* await generate_session_summary(u, s)
CallGenerateSessionSummary(r, u, s) ==
    Call(r, "generate_session_summary", "summary_find", u, s)

\* await update_lifetime_summary(u)
CallUpdateLifetimeSummary(r, u) ==
    Call(r, "update_lifetime_summary", "lifetime_find", u, NoSession)

\* await get_long_term_summaries(u, s)
CallGetLongTermSummaries(r, u, s) ==
    Call(r, "get_long_term_summaries", "get_session_summary", u, s)

\* cosine_similarity_score(embedding1, embedding2)
CallCosineSimilarityScore(r, embedding1, embedding2) ==
    /\ ~Running(r)
    /\ req' = [req EXCEPT ![r] = [IdleRequest EXCEPT
                                      !.pc = "done",
                                      !.entry = "cosine_similarity_score",
                                      !.embedding1 = embedding1,
                                      !.embedding2 = embedding2,
                                      !.returned = cosine_similarity_score(embedding1,
                                                                           embedding2)]]
    /\ served' = served + 1
    /\ UNCHANGED <<messages, summaries, episodes, clock, generated>>

\* build_prompt(SYSTEM_PRIMER, long_term_summaries, short_term_messages,
\*              message, episodic_facts)
CallBuildPrompt(r, long_term_summaries, short_term_messages, m, episodic_facts) ==
    /\ ~Running(r)
    /\ req' = [req EXCEPT ![r] = [IdleRequest EXCEPT
                                      !.pc = "done",
                                      !.entry = "build_prompt",
                                      !.long_term_summaries = long_term_summaries,
                                      !.short_term_messages = short_term_messages,
                                      !.message = m,
                                      !.relevant_episodes = episodic_facts,
                                      !.returned = build_prompt(SYSTEM_PRIMER,
                                                                long_term_summaries,
                                                                short_term_messages,
                                                                UserText(m),
                                                                episodic_facts)]]
    /\ served' = served + 1
    /\ UNCHANGED <<messages, summaries, episodes, clock, generated>>

\* prompt = build_prompt(...) in chat, from the locals of a turn that has
\* ranked
Prompt(r) ==
    build_prompt(SYSTEM_PRIMER, req[r].long_term_summaries, req[r].short_term_messages,
                 UserText(req[r].message), req[r].relevant_episodes)

(***************************************************************************)
(* Specifications                                                          *)
(***************************************************************************)
\* the steps of a turn in which every collaborator answers, up to the
\* session-summary gate
Turn(r) ==
    \/ SaveUser(r)
    \/ GetShortTerm(r)
    \/ GetSessionSummary(r)
    \/ GetLifetimeSummary(r)
    \/ ExtractEpisode(r)
    \/ GetRelevant(r)
    \/ Generate(r)
    \/ SaveAssistant(r)
    \/ ShouldSummarize(r)
    \/ Respond(r)

\* generate_session_summary, which chat reaches on every fifth user message
SessionSummary(r) ==
    \/ SummaryFind(r)
    \/ SummaryInsert(r)

\* update_lifetime_summary, which chat reaches when the window gate is open too
LifetimeSummary(r) ==
    \/ LifetimeFind(r)
    \/ LifetimeInsert(r)

\* a collaborator fails during the turn proper
TurnFailure(r) ==
    \/ ExtractEpisodeFallback(r)
    \/ GetRelevantFallback(r)
    \/ GenerateFails(r)
    \/ StorageFails(r)

\* the generation service fails during a summarization
SummaryFailure(r) ==
    \/ SummaryInsertApology(r)
    \/ LifetimeInsertApology(r)

NoneRunning == \A r \in Slots : ~Running(r)

\* the database after n turns of "hi." by u1 in s1, served one at a time with
\* every collaborator answering
EarlierTurns(n) ==
    [i \in 1..(2 * n) |->
        [user_id |-> "u1", session_id |-> "s1",
         role |-> IF i % 2 = 1 THEN "user" ELSE "assistant",
         content |-> IF i % 2 = 1 THEN UserText(2) ELSE LlmText(i \div 2),
         created_at |-> i]]

\* the server starts on a new database or on one that holds four earlier turns
InitRestart ==
    /\ \E n \in {0, SUMMARIZE_EVERY_USER_MSGS - 1} :
          /\ messages = EarlierTurns(n)
          /\ clock = 2 * n
          /\ generated = n
    /\ summaries = <<>>
    /\ episodes = <<>>
    /\ served = 0
    /\ req = [r \in Slots |-> IdleRequest]

\* Spec: two requests, which may overlap; every collaborator answers.  Two
\* requests never open the gate on update_lifetime_summary, so its steps are
\* left out.
Next ==
    \/ \E r \in Slots, i \in Inputs :
          /\ req[r].pc = "idle"
          /\ \A q \in Slots : q < r => req[q].pc # "idle"
          /\ Receive(r, i[1], i[2], i[3])
    \/ \E r \in Slots : Turn(r)
    \/ \E r \in Slots : SessionSummary(r)

Spec == InitRestart /\ [][Next]_vars

\* SpecSeq: requests are served one at a time, every collaborator answers.
\* Without a failed turn the window a fifth turn read holds 9 or 16 Turns, so
\* update_lifetime_summary is not reached and its steps are left out.
SeqInputs == {<<"u1", "s1", 2>>, <<"u1", "s2", 1>>}

NextSeq ==
    \/ /\ served < MaxTurns
       /\ NoneRunning
       /\ \E i \in SeqInputs : Receive(1, i[1], i[2], i[3])
    \/ Turn(1)
    \/ SessionSummary(1)

SpecSeq == Init /\ [][NextSeq]_vars

\* SpecFail: requests are served one at a time, collaborators may fail; the
\* behaviours are too short to reach a fifth user message
FailInputs == {<<"u1", "s1", 1>>, <<"u2", "s1", 2>>}

NextFail ==
    \/ /\ served < MaxFailTurns
       /\ NoneRunning
       /\ \E i \in FailInputs : Receive(1, i[1], i[2], i[3])
    \/ Turn(1)
    \/ TurnFailure(1)

SpecFail == Init /\ [][NextFail]_vars

\* SpecSum: one session served one request at a time, collaborators may fail,
\* long enough to reach the summaries
SumInputs == {<<"u1", "s1", 1>>}

NextSum ==
    \/ /\ served < MaxSumTurns
       /\ NoneRunning
       /\ \E i \in SumInputs : Receive(1, i[1], i[2], i[3])
    \/ Turn(1)
    \/ SessionSummary(1)
    \/ LifetimeSummary(1)
    \/ GenerateFails(1)
    \/ StorageFails(1)
    \/ SummaryFailure(1)

SpecSum == Init /\ [][NextSum]_vars

\* SpecNull: requests are served one at a time and every collaborator answers;
\* some requests give session_id as null, which ChatRequest accepts
NullInputs == {<<"u1", NoSession, 2>>, <<"u1", "s1", 1>>}

NextNull ==
    \/ /\ served < MaxNullTurns
       /\ NoneRunning
       /\ \E i \in NullInputs : Receive(1, i[1], i[2], i[3])
    \/ Turn(1)
    \/ SessionSummary(1)

SpecNull == Init /\ [][NextNull]_vars

\* the embeddings cosine_similarity_score is called with: of several lengths,
\* the empty one, ones of norm 0, parallel ones, one with a negative component
CosineVectors ==
    {<<>>, <<0>>, <<1>>, <<0, 0>>, <<1, 0>>, <<0, 1>>, <<1, 2>>, <<2, 1>>, <<-1, 2>>,
     <<0, 0, 0>>, <<1, 2, 3>>, <<2, 4, 6>>, <<3, 1, 2>>}

\* SpecCosine: cosine_similarity_score is called on pairs of these
NextCosine ==
    /\ served < MaxCosineCalls
    /\ \E a \in CosineVectors, b \in CosineVectors : CallCosineSimilarityScore(1, a, b)

SpecCosine == Init /\ [][NextCosine]_vars

\* SpecExtract: requests are served one at a time and every collaborator
\* answers; the messages probe the length test and the importance rule
ExtractInputs == {<<"u1", "s1", 3>>, <<"u1", "s1", 4>>, <<"u1", "s1", 5>>, <<"u2", "s2", 1>>}

NextExtract ==
    \/ /\ served < MaxExtractTurns
       /\ NoneRunning
       /\ \E i \in ExtractInputs : Receive(1, i[1], i[2], i[3])
    \/ Turn(1)

SpecExtract == Init /\ [][NextExtract]_vars

\* the database after one turn of u2 in s1 with message 1, every collaborator
\* answering: the user Turn, an Episode per sentence, the assistant Turn
InitRanked ==
    /\ messages = <<[user_id |-> "u2", session_id |-> "s1", role |-> "user",
                     content |-> UserText(1), created_at |-> 1],
                    [user_id |-> "u2", session_id |-> "s1", role |-> "assistant",
                     content |-> LlmText(1), created_at |-> Len(Extracted[1]) + 2]>>
    /\ episodes = [i \in 1..Len(Extracted[1]) |->
                      [user_id |-> "u2", session_id |-> "s1",
                       fact |-> Extracted[1][i].fact,
                       importance |-> Extracted[1][i].importance,
                       embedding |-> Embedding(Extracted[1][i].fact),
                       created_at |-> i + 1]]
    /\ summaries = <<>>
    /\ clock = Len(Extracted[1]) + 2
    /\ generated = 1
    /\ served = 0
    /\ req = [r \in Slots |-> IdleRequest]

\* SpecRank: after that turn, requests of u1 are served one at a time; the
\* embedding service may fail
RankInputs == {<<"u1", "s1", 1>>}

NextRank ==
    \/ /\ served < MaxRankTurns
       /\ NoneRunning
       /\ \E i \in RankInputs : Receive(1, i[1], i[2], i[3])
    \/ Turn(1)
    \/ ExtractEpisodeFallback(1)
    \/ GetRelevantFallback(1)

SpecRank == InitRanked /\ [][NextRank]_vars

\* SpecCand: after that turn, requests of both users, in either session of
\* u1, are served one at a time; the embedding service answers
CandInputs == {<<"u1", "s1", 1>>, <<"u1", "s2", 1>>, <<"u2", "s1", 1>>}

NextCand ==
    \/ /\ served < MaxCandTurns
       /\ NoneRunning
       /\ \E i \in CandInputs : Receive(1, i[1], i[2], i[3])
    \/ Turn(1)

SpecCand == InitRanked /\ [][NextCand]_vars

\* SpecMemory: the summarizations and the Digest read are called on their own,
\* one call at a time, on a new database or on one that holds earlier turns;
\* the generation service may fail
MemoryInputs == {<<"u1", "s1">>, <<"u2", "s1">>}

NextMemory ==
    \/ /\ served < MaxCalls
       /\ NoneRunning
       /\ \E i \in MemoryInputs : CallGenerateSessionSummary(1, i[1], i[2])
    \/ /\ served < MaxCalls
       /\ NoneRunning
       /\ \E i \in MemoryInputs : CallUpdateLifetimeSummary(1, i[1])
    \/ /\ served < MaxCalls
       /\ NoneRunning
       /\ \E i \in MemoryInputs : CallGetLongTermSummaries(1, i[1], i[2])
    \/ GetSessionSummary(1)
    \/ GetLifetimeSummary(1)
    \/ SessionSummary(1)
    \/ LifetimeSummary(1)
    \/ SummaryFailure(1)

SpecMemory == InitRestart /\ [][NextMemory]_vars

\* the arguments build_prompt is called with: each Digest absent, empty or a
\* text; the window empty or not; no, one or two facts
PromptDigests == {None, EMPTY, APOLOGY, LlmText(1)}

PromptWindows ==
    {<<>>,
     <<[user_id |-> "u1", session_id |-> "s1", role |-> "user",
        content |-> UserText(1), created_at |-> 1]>>,
     <<[user_id |-> "u1", session_id |-> "s1", role |-> "user",
        content |-> UserText(2), created_at |-> 1],
       [user_id |-> "u1", session_id |-> "s1", role |-> "assistant",
        content |-> LlmText(1), created_at |-> 2],
       [user_id |-> "u1", session_id |-> "s1", role |-> "user",
        content |-> UserText(1), created_at |-> 3]>>}

PromptEpisode(i) ==
    [user_id |-> "u1", session_id |-> "s1", fact |-> Extracted[1][i].fact,
     importance |-> Extracted[1][i].importance,
     embedding |-> Embedding(Extracted[1][i].fact), created_at |-> i + 1]

PromptFacts == {<<>>, <<PromptEpisode(2)>>, <<PromptEpisode(1), PromptEpisode(2)>>}

\* SpecPrompt: build_prompt is called on every combination of these
NextPrompt ==
    /\ served < MaxPromptCalls
    /\ \E lifetime \in PromptDigests, session \in PromptDigests,
          short_term_messages \in PromptWindows, m \in 1..2,
          episodic_facts \in PromptFacts :
          CallBuildPrompt(1, [session |-> session, lifetime |-> lifetime],
                          short_term_messages, m, episodic_facts)

SpecPrompt == Init /\ [][NextPrompt]_vars

\* SpecTrigger: one session served one request at a time, on a new database
\* or after four earlier turns; the document store may fail at either
\* save_message, at the read of the window and at the count of should_summarize
TriggerInputs == {<<"u1", "s1", 1>>}

TriggerFailures == {"save_user", "get_short_term", "save_assistant", "should_summarize"}

NextTrigger ==
    \/ /\ served < MaxTriggerTurns
       /\ NoneRunning
       /\ \E i \in TriggerInputs : Receive(1, i[1], i[2], i[3])
    \/ Turn(1)
    \/ SessionSummary(1)
    \/ LifetimeSummary(1)
    \/ /\ req[1].pc \in TriggerFailures
       /\ StorageFails(1)

SpecTrigger == InitRestart /\ [][NextTrigger]_vars

\* the ledger and the Digests of (u1, s1) after n turns of "hi." served one at a
\* time with every collaborator answering: every fifth turn has written a
\* session Digest after its reply
LedgerAfter(n) ==
    [i \in 1..(2 * n) |->
        LET turn == (i + 1) \div 2
            digests == (turn - 1) \div SUMMARIZE_EVERY_USER_MSGS
        IN  [user_id |-> "u1", session_id |-> "s1",
             role |-> IF i % 2 = 1 THEN "user" ELSE "assistant",
             content |-> IF i % 2 = 1 THEN UserText(2) ELSE LlmText(turn + digests),
             created_at |-> i + digests]]

DigestsAfter(n) ==
    [j \in 1..(n \div SUMMARIZE_EVERY_USER_MSGS) |->
        [user_id |-> "u1", session_id |-> "s1", scope |-> "session",
         text |-> LlmText((SUMMARIZE_EVERY_USER_MSGS + 1) * j),
         created_at |-> (2 * SUMMARIZE_EVERY_USER_MSGS + 1) * j]]

\* the server starts on a database that holds 4 or 14 earlier turns
InitLong ==
    /\ \E n \in {SUMMARIZE_EVERY_USER_MSGS - 1, 3 * SUMMARIZE_EVERY_USER_MSGS - 1} :
          /\ messages = LedgerAfter(n)
          /\ summaries = DigestsAfter(n)
          /\ clock = 2 * n + n \div SUMMARIZE_EVERY_USER_MSGS
          /\ generated = n + n \div SUMMARIZE_EVERY_USER_MSGS
    /\ episodes = <<>>
    /\ served = 0
    /\ req = [r \in Slots |-> IdleRequest]

\* SpecLong: after those turns, requests are served one at a time and every
\* collaborator answers.  The window of a fifth turn holds 9 or 16 Turns, so
\* the steps of update_lifetime_summary are left out.
LongInputs == {<<"u1", "s1", 2>>, <<"u1", "s1", 1>>, <<"u1", "s2", 2>>}

NextLong ==
    \/ /\ served < MaxLongTurns
       /\ NoneRunning
       /\ \E i \in LongInputs : Receive(1, i[1], i[2], i[3])
    \/ Turn(1)
    \/ SessionSummary(1)

SpecLong == InitLong /\ [][NextLong]_vars

(***************************************************************************)
(* Properties                                                              *)
(***************************************************************************)
\* the session Digests of (u, s)
SessionDigests(u, s) == SessionSummariesIn(summaries, u, s)

\* the steps of a turn between its user Turn and its session Digest
BeforeDigest == {"get_short_term", "get_session_summary", "get_lifetime_summary",
                 "extract", "get_relevant", "generate", "save_assistant",
                 "should_summarize", "summary_find", "summary_insert"}

\* a turn of (u, s) has stored its user Turn and not yet passed the summary
TurnPending(u, s) ==
    \E r \in Slots : /\ req[r].user_id = u
                     /\ req[r].session_id = s
                     /\ req[r].pc \in BeforeDigest

\* C1: with turns served one at a time and no failure, a session has one
\* Digest per fifth user turn, written at the end of that turn: floor(k/5)
\* after k turns, and floor((k-1)/5) while the k-th turn is still running.
C1_DigestPerFifthTurn ==
    \A u \in Users, s \in Sessions :
        LET k == user_message_count(u, s)
        IN  Len(SessionDigests(u, s)) =
                IF TurnPending(u, s) THEN (k - 1) \div SUMMARIZE_EVERY_USER_MSGS
                ELSE k \div SUMMARIZE_EVERY_USER_MSGS

\* ten turns of one session are over and it has its second Digest
C1_Witness ==
    /\ NoneRunning
    /\ \E u \in Users, s \in Sessions :
          /\ user_message_count(u, s) = 2 * SUMMARIZE_EVERY_USER_MSGS
          /\ Len(SessionDigests(u, s)) = 2

\* the last n elements of a sequence
Suffix(q, n) == SubSeq(q, Len(q) - n + 1, Len(q))

\* the steps of a turn between its read of the window and its assistant Turn
WindowFresh == {"get_session_summary", "get_lifetime_summary", "extract",
                "get_relevant", "generate", "save_assistant"}

\* C2: get_short_term_messages returns the last min(N, limit) Turns of the
\* partition, oldest first, for every limit; so does the window a turn read.
C2_RecentIsSuffix ==
    /\ \A u \in Users, s \in Sessions :
          LET ledger == FindMessages(u, s)
          IN  /\ \A i, j \in 1..Len(ledger) :
                     i < j => ledger[i].created_at < ledger[j].created_at
              /\ \A limit \in (1..MaxLimit) \cup {SHORT_TERM_N} :
                     get_short_term_messages(u, s, limit) =
                         Suffix(ledger, Min(Len(ledger), limit))
    /\ \A r \in Slots :
          req[r].pc \in WindowFresh =>
              LET ledger == FindMessages(req[r].user_id, req[r].session_id)
              IN  req[r].short_term_messages =
                      Suffix(ledger, Min(Len(ledger), SHORT_TERM_N))

\* a turn has read its window from a ledger longer than the window
C2_Witness ==
    \E r \in Slots :
        /\ req[r].pc \in WindowFresh
        /\ Len(FindMessages(req[r].user_id, req[r].session_id)) > SHORT_TERM_N
        /\ Len(req[r].short_term_messages) = SHORT_TERM_N

\* the Turns stored since request r arrived
TurnsAdded(r) == SubSeq(messages, req[r].ledger_at_start + 1, Len(messages))

\* the Episodes stored since request r arrived
EpisodesAdded(r) == SubSeq(episodes, req[r].episodes_at_start + 1, Len(episodes))

IsTurn(d, r, role, content) ==
    /\ d.user_id = req[r].user_id
    /\ d.session_id = req[r].session_id
    /\ d.role = role
    /\ d.content = content

\* C3: a failure of the generation collaborator is terminal for the turn: the
\* caller gets an error, and no assistant Turn with a substitute reply is stored.
C3_GenerationFailureTerminal ==
    \A r \in Slots :
        req[r].generation_failed =>
            /\ req[r].pc = "done" => req[r].status = STATUS_ERROR
            /\ \A i \in 1..Len(TurnsAdded(r)) : TurnsAdded(r)[i].role # "assistant"

InLedger(d) == \E i \in 1..Len(messages) : messages[i] = d

\* request r is past its first save_message
UserTurnRecorded(r) ==
    /\ req[r].pc \notin {"idle", "save_user"}
    /\ req[r].failed_at # "save_user"

C9_TwoTurnsPerReply ==
    \A r \in Slots :
        req[r].pc # "idle" =>
            LET added == TurnsAdded(r)
            IN  /\ Len(added) <= 2
                /\ Len(added) >= 1 => IsTurn(added[1], r, "user", UserText(req[r].message))
                /\ Len(added) = 2 =>
                       /\ IsTurn(added[2], r, "assistant", req[r].reply)
                       /\ added[1].created_at < added[2].created_at
                /\ (req[r].pc = "done" /\ req[r].status = STATUS_OK) => Len(added) = 2

\* a turn returned the reply the generation service produced
C9_Witness ==
    \E r \in Slots :
        /\ req[r].pc = "done"
        /\ req[r].status = STATUS_OK
        /\ req[r].reply.kind = "llm"
        /\ Len(TurnsAdded(r)) = 2

\* C10: an embedding failure during extraction does not fail the turn: the
\* Episode is stored with the fact and importance of its sentence and a
\* fallback vector, and only a store failure ends the turn in an error.
C10_EmbeddingFailureRecovered ==
    \A r \in Slots :
        req[r].pc # "idle" =>
            LET stored == EpisodesAdded(r)
                expected == Extracted[req[r].message]
            IN  /\ Len(stored) = Len(req[r].fallbacks)
                /\ Len(stored) <= Len(expected)
                /\ \A i \in 1..Len(stored) :
                       /\ stored[i].user_id = req[r].user_id
                       /\ stored[i].session_id = req[r].session_id
                       /\ stored[i].fact = expected[i].fact
                       /\ stored[i].importance = expected[i].importance
                       /\ IF req[r].fallbacks[i]
                          THEN stored[i].embedding \in RandomVectors
                          ELSE stored[i].embedding = Embedding(expected[i].fact)
                /\ req[r].status = STATUS_ERROR => req[r].failed_at # ""
                /\ (req[r].pc = "done" /\ req[r].failed_at = "") =>
                       /\ req[r].status = STATUS_OK
                       /\ req[r].reply # None
                       /\ Len(stored) = Len(expected)

\* a turn whose first sentence got a fallback vector returned a reply
C10_Witness ==
    \E r \in Slots :
        /\ req[r].pc = "done"
        /\ req[r].status = STATUS_OK
        /\ Len(req[r].fallbacks) = 2
        /\ req[r].fallbacks[1]
        /\ EpisodesAdded(r)[1].embedding \in RandomVectors

\* the steps of generate_session_summary and update_lifetime_summary
SummarySteps == {"summary_find", "summary_insert", "lifetime_find", "lifetime_insert"}

\* C5: when generation fails inside a summarization, the summarization is
\* skipped: no Digest is written and the current Digests stay as they were.
C5_FailedSummarySkipped ==
    [][\A r \in Slots :
          (req[r].pc \in SummarySteps /\ ~req[r].summary_failed /\ req'[r].summary_failed)
              => /\ summaries' = summaries
                 /\ latest_session_summary(req[r].user_id, req[r].session_id)' =
                        latest_session_summary(req[r].user_id, req[r].session_id)]_vars

\* C6: once the reply is generated and stored as the assistant Turn, no failure
\* inside the summarization keeps it from the caller.
C6_ReplyIndependentOfSummary ==
    \A r \in Slots :
        (req[r].pc = "done" /\ req[r].failed_at \in SummarySteps)
            => req[r].status = STATUS_OK

\* C7: requests of one session are served one after another: in the session's
\* ledger every user Turn is directly followed by an assistant Turn, and with
\* no request running the session has one Digest per fifth user Turn.
C7_SessionSerialized ==
    \A u \in Users, s \in Sessions :
        LET ledger == FindMessages(u, s)
        IN  /\ \A i \in 1..(Len(ledger) - 1) :
                   ledger[i].role = "user" => ledger[i + 1].role = "assistant"
            /\ NoneRunning =>
                   Len(SessionDigests(u, s)) =
                       user_message_count(u, s) \div SUMMARIZE_EVERY_USER_MSGS

\* a collection without the documents of other users
OnlyUser(coll, u) == SelectSeq(coll, LAMBDA d : d.user_id = u)

\* a collection without the documents of other sessions and other users
OnlySession(coll, u, s) == SelectSeq(coll, LAMBDA d : d.user_id = u /\ d.session_id = s)

\* the query vectors get_embedding may return for a message
QueryVectors == {Embedding(MessageTexts[m]) : m \in 1..Len(MessageTexts)} \cup RandomVectors

\* every read of (u, s) returns what it would on a store holding only the
\* documents of u (for the ledger and the session Digest: only those of (u, s))
ReadsIsolated ==
    \A u \in Users, s \in Sessions :
        /\ get_short_term_messages_in(messages, u, s, SHORT_TERM_N) =
               get_short_term_messages_in(OnlySession(messages, u, s), u, s, SHORT_TERM_N)
        /\ user_message_count_in(messages, u, s) =
               user_message_count_in(OnlySession(messages, u, s), u, s)
        /\ LatestText(SessionSummariesIn(summaries, u, s)) =
               LatestText(SessionSummariesIn(OnlySession(summaries, u, s), u, s))
        /\ LatestText(LifetimeSummariesIn(summaries, u)) =
               LatestText(LifetimeSummariesIn(OnlyUser(summaries, u), u))
        /\ LifetimeWindowIn(summaries, u) = LifetimeWindowIn(OnlyUser(summaries, u), u)
        /\ \A q \in QueryVectors :
               get_relevant_episodes_in(episodes, u, q, TOP_K_EPISODES) =
                   get_relevant_episodes_in(OnlyUser(episodes, u), u, q, TOP_K_EPISODES)

\* what a turn holds in its locals is its own user's (and session's)
LocalsOwn ==
    \A r \in Slots :
        /\ \A i \in 1..Len(req[r].short_term_messages) :
               /\ req[r].short_term_messages[i].user_id = req[r].user_id
               /\ req[r].short_term_messages[i].session_id = req[r].session_id
        /\ \A i \in 1..Len(req[r].relevant_episodes) :
               req[r].relevant_episodes[i].user_id = req[r].user_id
        /\ req[r].long_term_summaries.session \in
               {None} \cup {SessionDigests(req[r].user_id, req[r].session_id)[i].text :
                               i \in 1..Len(SessionDigests(req[r].user_id, req[r].session_id))}
        /\ req[r].long_term_summaries.lifetime \in
               {None} \cup {LifetimeSummariesIn(summaries, req[r].user_id)[i].text :
                               i \in 1..Len(LifetimeSummariesIn(summaries, req[r].user_id))}

\* a step of a turn of (u, s) leaves the Turns and session Digests of every
\* other session, and the Episodes and Digests of every other user, as they were
OthersUntouched ==
    \A r \in Slots :
        req'[r] # req[r] =>
            /\ \A u \in Users, s \in Sessions :
                   (u # req'[r].user_id \/ s # req'[r].session_id) =>
                       /\ FindMessagesIn(messages', u, s) = FindMessagesIn(messages, u, s)
                       /\ SessionSummariesIn(summaries', u, s) =
                              SessionSummariesIn(summaries, u, s)
            /\ \A u \in Users :
                   u # req'[r].user_id =>
                       /\ FindEpisodesIn(episodes', u) = FindEpisodesIn(episodes, u)
                       /\ OnlyUser(summaries', u) = OnlyUser(summaries, u)

\* C8: turns of different users, and of different sessions of one user, do not
\* affect each other: a turn writes only to its own partition, and what it reads
\* is what it would read had the other turns never run.
C8_Isolation ==
    /\ [](ReadsIsolated /\ LocalsOwn)
    /\ [][OthersUntouched]_vars

\* a turn of one user has read its window, Digests and Episodes while a turn of
\* another user overlaps it, and the store holds a session Digest of that other
\* user written before the reading turn began
C8_Witness ==
    \E r, q \in Slots :
        /\ r # q
        /\ req[r].pc = "generate"
        /\ req[q].pc # "idle"
        /\ req[q].user_id # req[r].user_id
        /\ req[r].relevant_episodes # <<>>
        /\ req[r].long_term_summaries.session = None
        /\ \E i \in 1..Len(summaries) :
               /\ summaries[i].user_id = req[q].user_id
               /\ summaries[i].created_at < req[r].user_turn.created_at

\* C11: a Digest of lifetime scope has no session_id and a Digest of session
\* scope has one, whatever requests the API accepted, a null session_id included.
C11_DigestScopeSession ==
    \A i \in 1..Len(summaries) :
        /\ summaries[i].scope = "user" => summaries[i].session_id = NoSession
        /\ summaries[i].scope = "session" => summaries[i].session_id # NoSession

\* the ledger of (u, s) in a messages collection, oldest first
OrderedLedger(coll, u, s) == Reverse(SortCreatedDesc(FindMessagesIn(coll, u, s)))

IsPrefix(p, q) == Len(p) <= Len(q) /\ SubSeq(q, 1, Len(p)) = p

\* C12: the ledger is append-only: over every step of chat, of the session and
\* lifetime summarizations and of the reads, the ordered ledger of every
\* partition before the step is a prefix of the ordered ledger after it.
C12_LedgerAppendOnly ==
    [][messages' # messages =>
          \A u \in Users, s \in Sessions \cup {NoSession} :
              IsPrefix(OrderedLedger(messages, u, s), OrderedLedger(messages', u, s))]_vars

\* turns have failed and turns have replied, the ledger holds Turns of several
\* of them, and both summarizations have written their Digest
C12_Witness ==
    /\ Len(OrderedLedger(messages, "u1", "s1")) > SUMMARIZE_EVERY_USER_MSGS
    /\ \E i \in 1..Len(summaries) : summaries[i].scope = "session"
    /\ \E i \in 1..Len(summaries) : summaries[i].scope = "user"
    /\ req[1].pc = "done"

\* the text of the document inserted last, None when there is none
LastInsertedText(docs) == IF docs = <<>> THEN None ELSE docs[Len(docs)].text

\* C13: the current Digest of a scope is None until a Digest of that scope has
\* been written, and from then on the text of the Digest created last, for the
\* lifetime scope per user and for the session scope per (user, session); this
\* is also what a call of get_long_term_summaries returned.
C13_CurrentDigestLatest ==
    /\ \A u \in Users :
           latest_lifetime_summary(u) =
               LastInsertedText(LifetimeSummariesIn(summaries, u))
    /\ \A u \in Users, s \in Sessions :
           latest_session_summary(u, s) =
               LastInsertedText(SessionSummariesIn(summaries, u, s))
    /\ \A r \in Slots :
           (req[r].pc = "done" /\ req[r].entry = "get_long_term_summaries") =>
               /\ req[r].long_term_summaries.lifetime =
                      LastInsertedText(LifetimeSummariesIn(summaries, req[r].user_id))
               /\ req[r].long_term_summaries.session =
                      LastInsertedText(SessionSummariesIn(summaries, req[r].user_id,
                                                          req[r].session_id))

\* get_long_term_summaries returned the newer of two lifetime Digests with
\* different texts, and a session Digest
C13_Witness ==
    \E r \in Slots :
        /\ req[r].pc = "done"
        /\ req[r].entry = "get_long_term_summaries"
        /\ req[r].long_term_summaries.session # None
        /\ LET ds == LifetimeSummariesIn(summaries, req[r].user_id)
           IN  /\ Len(ds) >= 2
               /\ ds[1].text # ds[Len(ds)].text
               /\ req[r].long_term_summaries.lifetime = ds[Len(ds)].text

\* C14: a summarization with nothing to summarize is a no-op: with an empty
\* ledger window generate_session_summary, and with no session Digest
\* update_lifetime_summary, returns "" at once, calls no generation and leaves
\* the stores as they were, each time it is called.
C14_EmptySummaryNoOp ==
    [][\A r \in Slots :
          /\ (/\ req[r].pc = "summary_find"
              /\ req'[r] # req[r]
              /\ FindMessages(req[r].user_id, req[r].session_id) = <<>>)
                 => /\ req'[r].returned = EMPTY
                    /\ req'[r].pc # "summary_insert"
                    /\ req[r].entry # "chat" => req'[r].pc = "done"
                    /\ UNCHANGED <<messages, summaries, episodes, generated>>
          /\ (/\ req[r].pc = "lifetime_find"
              /\ req'[r] # req[r]
              /\ \A i \in 1..Len(summaries) :
                     ~(summaries[i].user_id = req[r].user_id /\ summaries[i].scope = "session"))
                 => /\ req'[r].returned = EMPTY
                    /\ req'[r].pc # "lifetime_insert"
                    /\ req[r].entry # "chat" => req'[r].pc = "done"
                    /\ UNCHANGED <<messages, summaries, episodes, generated>>]_vars

\* after three calls, the last one generate_session_summary on an empty
\* ledger returning "", nothing was generated and no Digest was written
C14_Witness ==
    /\ served >= 3
    /\ summaries = <<>>
    /\ generated = 0
    /\ req[1].pc = "done"
    /\ req[1].entry = "generate_session_summary"
    /\ req[1].returned = EMPTY

\* the position of an Episode in the scan find({"user_id": u}) returns
ScanIndex(u, e) == CHOOSE k \in 1..Len(FindEpisodes(u)) : FindEpisodes(u)[k] = e

\* a turn has just ranked the Episodes of its user
JustRanked(r) == req[r].pc = "generate"

\* ranked is what rank owes for the Episodes of u, the query vector q and top_k
IsRanking(ranked, u, q, top_k) ==
    LET found == FindEpisodes(u)
        sim(e) == cosine_similarity_score(q, e.embedding)
    IN  /\ Len(ranked) = Min(Len(found), top_k)
        /\ \A i \in 1..Len(ranked) :
               /\ ranked[i].user_id = u
               /\ \E k \in 1..Len(found) : found[k] = ranked[i]
        /\ \A i, j \in 1..Len(ranked) :
               i < j =>
                   /\ ~SimLess(sim(ranked[i]), sim(ranked[j]))
                   /\ ~SimLess(sim(ranked[j]), sim(ranked[i])) =>
                          ScanIndex(u, ranked[i]) < ScanIndex(u, ranked[j])
        /\ \A k \in 1..Len(found) :
               (\A i \in 1..Len(ranked) : ranked[i] # found[k]) =>
                   \A i \in 1..Len(ranked) : ~SimLess(sim(ranked[i]), sim(found[k]))

\* C15: for a user with n Episodes and every top_k >= 0, get_relevant_episodes
\* returns min(n, top_k) Episodes of that user, the most similar ones, by
\* non-increasing similarity to the query vector, equal similarities in scan
\* order; a turn's relevant_episodes are that for TOP_K_EPISODES.
C15_RankTopK ==
    \A r \in Slots :
        JustRanked(r) =>
            /\ \A top_k \in (0..MaxTopK) \cup {TOP_K_EPISODES} :
                   IsRanking(get_relevant_episodes(req[r].user_id,
                                                   req[r].message_embedding, top_k),
                             req[r].user_id, req[r].message_embedding, top_k)
            /\ IsRanking(req[r].relevant_episodes, req[r].user_id,
                         req[r].message_embedding, TOP_K_EPISODES)

\* a turn ranked four Episodes of its user, two of them equally similar to the
\* query and two not, while another top_k would have cut the list
C15_Witness ==
    \E r \in Slots :
        /\ JustRanked(r)
        /\ Len(req[r].relevant_episodes) > MaxTopK
        /\ LET ranked == req[r].relevant_episodes
               sim(e) == cosine_similarity_score(req[r].message_embedding, e.embedding)
           IN  /\ \E i \in 1..(Len(ranked) - 1) :
                      /\ ~SimLess(sim(ranked[i + 1]), sim(ranked[i]))
                      /\ ScanIndex(req[r].user_id, ranked[i]) + 1 <
                             ScanIndex(req[r].user_id, ranked[i + 1])
               /\ SimLess(sim(ranked[Len(ranked)]), sim(ranked[1]))

\* the trimmed sentences of each message the model sends
Sentences ==
    [m \in 1..Len(MessageTexts) |->
        [i \in 1..Len(Split(MessageTexts[m])) |-> Strip(Split(MessageTexts[m])[i])]]

\* the length of a trimmed sentence is strictly between 10 and 200
LengthAllowed(sentence) == Len(sentence) > MIN_FACT_LEN /\ Len(sentence) < MAX_FACT_LEN

\* C16: every stored Episode's fact is a trimmed sentence of length strictly
\* between 10 and 200; a message with no such sentence stores no Episode, and
\* its turn goes on to its reply.
C16_FactLengthGate ==
    /\ \A i \in 1..Len(episodes) :
           /\ LengthAllowed(episodes[i].fact)
           /\ Strip(episodes[i].fact) = episodes[i].fact
    /\ \A r \in Slots :
           (/\ req[r].entry = "chat"
            /\ \A i \in 1..Len(Sentences[req[r].message]) :
                   ~LengthAllowed(Sentences[req[r].message][i]))
               => /\ EpisodesAdded(r) = <<>>
                  /\ req[r].pc = "done" =>
                         (req[r].status = STATUS_OK /\ req[r].reply # None)

\* the sentences of 11 and of 199 characters were stored, the ones of 10 and of
\* 200 were not, and a turn whose message has only short sentences replied
C16_Witness ==
    /\ \E i \in 1..Len(episodes) : Len(episodes[i].fact) = MIN_FACT_LEN + 1
    /\ \E i \in 1..Len(episodes) : Len(episodes[i].fact) = MAX_FACT_LEN - 1
    /\ req[1].pc = "done"
    /\ req[1].status = STATUS_OK
    /\ MessageText(req[1].message) = MsgTiny
    /\ EpisodesAdded(1) = <<>>

\* a sentence contains one of the keywords, whatever its case
HasKeyword(sentence, keywords) ==
    LET lowered == Lower(sentence)
    IN  \E w \in keywords : Contains(lowered, w)

\* C17: importance is first-match-wins: 0.8 for a sentence with a keyword of
\* the first list, also when it has one of the second list; otherwise 0.6 for
\* one of the second list; otherwise 0.5. Every stored Episode has importance
\* 0.5, 0.6 or 0.8, which is in [0, 1] and above the threshold.
C17_ImportanceBuckets ==
    \A i \in 1..Len(episodes) :
        LET e == episodes[i]
        IN  /\ e.importance \in {IMPORTANCE_BASE, IMPORTANCE_MEDIUM, IMPORTANCE_HIGH}
            /\ e.importance >= 0
            /\ e.importance <= 10
            /\ e.importance > IMPORTANCE_THRESHOLD
            /\ HasKeyword(e.fact, HighKeywords) => e.importance = IMPORTANCE_HIGH
            /\ (~HasKeyword(e.fact, HighKeywords) /\ HasKeyword(e.fact, MediumKeywords))
                   => e.importance = IMPORTANCE_MEDIUM
            /\ (~HasKeyword(e.fact, HighKeywords) /\ ~HasKeyword(e.fact, MediumKeywords))
                   => e.importance = IMPORTANCE_BASE

\* the five sentences of MsgKeywords were stored with 0.8 (a keyword of both
\* lists), 0.6, 0.5, 0.8 (a keyword inside a word) and 0.8 (both lists again)
C17_Witness ==
    /\ req[1].pc = "done"
    /\ MessageText(req[1].message) = MsgKeywords
    /\ Len(EpisodesAdded(1)) = 5
    /\ [i \in 1..5 |-> EpisodesAdded(1)[i].importance] =
           <<IMPORTANCE_HIGH, IMPORTANCE_MEDIUM, IMPORTANCE_BASE,
             IMPORTANCE_HIGH, IMPORTANCE_HIGH>>
    /\ HasKeyword(EpisodesAdded(1)[1].fact, MediumKeywords)

\* C18: the similarity function never raises: it returns a number, which is
\* 0.0 for embeddings of different lengths and when either has norm 0, and
\* 1.0 for an embedding of non-zero norm compared with itself.
C18_CosineTotal ==
    \A r \in Slots :
        (req[r].pc = "done" /\ req[r].entry = "cosine_similarity_score") =>
            LET a == req[r].embedding1
                b == req[r].embedding2
                zero(v) == \A i \in 1..Len(v) : v[i] = 0
            IN  /\ req[r].returned.den > 0
                /\ (Len(a) # Len(b) \/ zero(a) \/ zero(b)) => req[r].returned.num = 0
                /\ (a = b /\ ~zero(a)) => req[r].returned.num = req[r].returned.den

\* the function was called with embeddings of different lengths, neither of
\* norm 0, and returned 0.0
C18_Witness ==
    \E r \in Slots :
        /\ req[r].pc = "done"
        /\ req[r].entry = "cosine_similarity_score"
        /\ Len(req[r].embedding1) # Len(req[r].embedding2)
        /\ \E i \in 1..Len(req[r].embedding1) : req[r].embedding1[i] # 0
        /\ \E i \in 1..Len(req[r].embedding2) : req[r].embedding2[i] # 0
        /\ req[r].returned.num = 0

\* C19: when a storage operation fails at any step of a chat turn, the turn is
\* over and the caller receives one outcome, the error with status 500, and
\* no reply.
C19_StorageFailureIsError ==
    /\ [](\A r \in Slots :
             req[r].failed_at \in StorageSteps =>
                 /\ req[r].pc = "done"
                 /\ Response(r) = [status |-> STATUS_ERROR, reply |-> None])
    /\ [][\A r \in Slots :
              (req[r].pc = "done" /\ req'[r].pc = "done") =>
                  Response(r)' = Response(r)]_vars

\* the store failed after the reply was generated, and the caller got the
\* error without it
C19_Witness ==
    \E r \in Slots :
        /\ req[r].failed_at = "save_assistant"
        /\ req[r].reply.kind = "llm"
        /\ Response(r) = [status |-> STATUS_ERROR, reply |-> None]

\* C20: the gate on the lifetime summarization is tested on every turn, whatever
\* the session gate says: a turn that returned its reply and whose short-term
\* window has a multiple of 5 Turns has called update_lifetime_summary.
C20_LifetimeGateIndependent ==
    \A r \in Slots :
        (/\ req[r].entry = "chat"
         /\ req[r].pc = "done"
         /\ req[r].status = STATUS_OK
         /\ lifetime_gate(req[r].short_term_messages))
            => "update_lifetime_summary" \in req[r].called

\* the steps of chat that read the context of the prompt
ContextReads == {"get_short_term", "get_session_summary", "get_lifetime_summary",
                 "get_relevant"}

\* extract_episodes has stored every Episode of the message of turn r
ExtractionOver(r) == Len(EpisodesAdded(r)) = Len(Extracted[req[r].message])

\* the assistant Turn of turn r is in the ledger
ReplyRecorded(r) ==
    /\ req[r].reply # None
    /\ \E i \in 1..Len(TurnsAdded(r)) : IsTurn(TurnsAdded(r)[i], r, "assistant", req[r].reply)

\* C21: the steps of a turn run in the order RECEIVED, LOGGED, EXTRACTED,
\* RETRIEVED, ASSEMBLED, REPLIED, (MAYBE_SUMMARIZED), DONE: an Episode is stored
\* only after the user Turn, every context read (window, Digests, ranked facts)
\* is taken after all Episodes are stored and before the reply is generated,
\* generation comes after the reads, summarization after the reply is recorded,
\* and a turn that returns has skipped none of them.
C21_StepOrder ==
    [][\A r \in Slots :
          (req[r].entry = "chat" /\ req'[r] # req[r]) =>
              /\ req[r].pc = "extract" => InLedger(req[r].user_turn)
              /\ req[r].pc \in ContextReads =>
                     /\ InLedger(req[r].user_turn)
                     /\ ExtractionOver(r)
                     /\ req[r].reply = None
              /\ req[r].pc = "generate" =>
                     /\ ExtractionOver(r)
                     /\ req[r].short_term_messages # <<>>
                     /\ req[r].message_embedding # <<>>
              /\ req[r].pc \in SummarySteps => ReplyRecorded(r)
              /\ req[r].pc = "respond" =>
                     /\ ExtractionOver(r)
                     /\ ReplyRecorded(r)
                     /\ Len(TurnsAdded(r)) = 2]_vars

\* the texts that open the sections of a prompt, in the order of the sections
PromptOrder == <<"", "User Profile: ", "Session Context: ", "Recent conversation:",
                 "User: ", "Relevant facts:">>

Position(header) == CHOOSE k \in 1..Len(PromptOrder) : PromptOrder[k] = header

\* C22: for every combination of present, empty and absent Digests, window and
\* ranked facts, the prompt holds its sections in the fixed order primer,
\* lifetime Digest, session Digest, window as "role: text" lines, current user
\* message, facts as bullet lines; the primer and the user message are always
\* there, and a section whose content is absent or empty is left out with its
\* header.
C22_PromptSections ==
    \A r \in Slots :
        (req[r].pc = "done" /\ req[r].entry = "build_prompt") =>
            LET prompt == req[r].returned
                digests == req[r].long_term_summaries
                window == req[r].short_term_messages
                facts == req[r].relevant_episodes
                has(h) == \E i \in 1..Len(prompt) : prompt[i].header = h
                lines(h) == prompt[CHOOSE i \in 1..Len(prompt) : prompt[i].header = h].lines
                one(text) == <<[prefix |-> "", text |-> text]>>
            IN  /\ \A i \in 1..Len(prompt) :
                       /\ \E k \in 1..Len(PromptOrder) : PromptOrder[k] = prompt[i].header
                       /\ prompt[i].lines # <<>>
                /\ \A i, j \in 1..Len(prompt) :
                       i < j => Position(prompt[i].header) < Position(prompt[j].header)
                /\ has("") /\ lines("") = one(SYSTEM_PRIMER)
                /\ has("User: ") /\ lines("User: ") = one(UserText(req[r].message))
                /\ has("User Profile: ") <=> digests.lifetime \notin {None, EMPTY}
                /\ has("User Profile: ") => lines("User Profile: ") = one(digests.lifetime)
                /\ has("Session Context: ") <=> digests.session \notin {None, EMPTY}
                /\ has("Session Context: ") =>
                       lines("Session Context: ") = one(digests.session)
                /\ has("Recent conversation:") <=> Len(window) > 0
                /\ has("Recent conversation:") =>
                       /\ Len(lines("Recent conversation:")) = Len(window)
                       /\ \A i \in 1..Len(window) :
                              /\ lines("Recent conversation:")[i].prefix = window[i].role
                              /\ lines("Recent conversation:")[i].text = window[i].content
                /\ has("Relevant facts:") <=> Len(facts) > 0
                /\ has("Relevant facts:") =>
                       /\ Len(lines("Relevant facts:")) = Len(facts)
                       /\ \A i \in 1..Len(facts) :
                              /\ lines("Relevant facts:")[i].prefix = "-"
                              /\ lines("Relevant facts:")[i].text = facts[i].fact

\* build_prompt was called with an empty lifetime Digest, a session Digest, a
\* window of three Turns and two facts, and returned five sections
C22_Witness ==
    \E r \in Slots :
        /\ req[r].pc = "done"
        /\ req[r].entry = "build_prompt"
        /\ req[r].long_term_summaries.lifetime = EMPTY
        /\ req[r].long_term_summaries.session = APOLOGY
        /\ Len(req[r].short_term_messages) = 3
        /\ Len(req[r].relevant_episodes) = 2
        /\ Len(req[r].returned) = 5
        /\ req[r].returned[2].header = "Session Context: "

\* the steps of chat after extract_episodes has returned
PastExtraction == {"get_relevant", "generate", "save_assistant", "should_summarize",
                   "summary_find", "summary_insert", "lifetime_find", "lifetime_insert",
                   "respond"}

\* the importance the keyword buckets give a sentence, in tenths
Bucket(sentence) ==
    IF HasKeyword(sentence, HighKeywords) THEN IMPORTANCE_HIGH
    ELSE IF HasKeyword(sentence, MediumKeywords) THEN IMPORTANCE_MEDIUM
    ELSE IMPORTANCE_BASE

\* "I love spicy food"
FactFood == <<"I"," ","l","o","v","e"," ","s","p","i","c","y"," ","f","o","o","d">>
\* "I visited Tokyo last year"
FactTokyo == <<"I"," ","v","i","s","i","t","e","d"," ","T","o","k","y","o"," ",
               "l","a","s","t"," ","y","e","a","r">>

\* C23: a user message stores exactly one Episode for each "."-delimited
\* segment whose trimmed length is strictly between 10 and 200, in message
\* order, each with the turn's user_id and session_id and its bucket importance;
\* "I love spicy food. I visited Tokyo last year." stores exactly two, with
\* importance 0.8 and 0.5 in that order.
C23_EpisodePerSentence ==
    \A r \in Slots :
        (/\ req[r].entry = "chat"
         /\ \/ req[r].pc \in PastExtraction
            \/ req[r].pc = "done" /\ req[r].status = STATUS_OK) =>
            LET stored == EpisodesAdded(r)
                kept == SelectSeq(Sentences[req[r].message], LengthAllowed)
            IN  /\ Len(stored) = Len(kept)
                /\ \A i \in 1..Len(stored) :
                       /\ stored[i].fact = kept[i]
                       /\ stored[i].user_id = req[r].user_id
                       /\ stored[i].session_id = req[r].session_id
                       /\ stored[i].importance = Bucket(kept[i])
                       /\ \A j \in 1..Len(stored) :
                              i < j => stored[i].created_at < stored[j].created_at
                /\ MessageText(req[r].message) = MsgFood =>
                       /\ [i \in 1..Len(stored) |-> stored[i].fact] = <<FactFood, FactTokyo>>
                       /\ [i \in 1..Len(stored) |-> stored[i].importance] =
                              <<IMPORTANCE_HIGH, IMPORTANCE_BASE>>

\* a turn with the two-sentence message returned, after an earlier turn had
\* stored Episodes of its own, and the store holds this turn's two Episodes
C23_Witness ==
    /\ req[1].pc = "done"
    /\ req[1].status = STATUS_OK
    /\ MessageText(req[1].message) = MsgFood
    /\ req[1].episodes_at_start > 0
    /\ Len(episodes) = req[1].episodes_at_start + 2
    /\ episodes[Len(episodes) - 1].importance = IMPORTANCE_HIGH
    /\ episodes[Len(episodes)].importance = IMPORTANCE_BASE
    /\ episodes[Len(episodes)].session_id = "s2"

UserTurnsBefore(u, s, t) ==
    Len(SelectSeq(messages, LAMBDA d : /\ d.user_id = u /\ d.session_id = s
                                        /\ d.role = "user" /\ d.created_at < t))

\* the steps of chat up to the trigger check, after the user Turn is stored
BeforeTrigger == {"get_short_term", "get_session_summary", "get_lifetime_summary",
                  "extract", "get_relevant", "save_assistant", "should_summarize"}

\* C25: the trigger counts the user Turns of failed turns too: every session
\* Digest was written when the session's user-turn count, failed turns
\* included, was a multiple of 5, at most one per multiple, and a turn that
\* failed after storing its user Turn and before the trigger check has written
\* none, so a crossing whose turn failed gets no Digest, then or later.
C25_TriggerCountsFailedTurns ==
    /\ \A u \in Users, s \in Sessions :
           LET ds == SessionDigests(u, s)
           IN  /\ \A i \in 1..Len(ds) :
                      /\ UserTurnsBefore(u, s, ds[i].created_at) > 0
                      /\ UserTurnsBefore(u, s, ds[i].created_at) % SUMMARIZE_EVERY_USER_MSGS = 0
               /\ \A i, j \in 1..Len(ds) :
                      i < j => UserTurnsBefore(u, s, ds[i].created_at) <
                                   UserTurnsBefore(u, s, ds[j].created_at)
    /\ \A r \in Slots :
           (req[r].pc = "done" /\ req[r].failed_at \in BeforeTrigger) =>
               /\ InLedger(req[r].user_turn)
               /\ \A i \in 1..Len(summaries) :
                      summaries[i].created_at < req[r].user_turn.created_at

\* ten user Turns are stored; the turn of the fifth failed before its reply,
\* so the sixth user Turn follows the fifth; the only session Digest is the
\* one the tenth turn wrote
C25_Witness ==
    /\ req[1].pc = "done"
    /\ req[1].status = STATUS_OK
    /\ user_message_count("u1", "s1") = 2 * SUMMARIZE_EVERY_USER_MSGS
    /\ Len(SessionDigests("u1", "s1")) = 1
    /\ SessionDigests("u1", "s1")[1].created_at > req[1].user_turn.created_at
    /\ \E i \in 1..(Len(messages) - 1) :
           /\ messages[i].role = "user"
           /\ messages[i + 1].role = "user"
           /\ UserTurnsBefore("u1", "s1", messages[i + 1].created_at) =
                  SUMMARIZE_EVERY_USER_MSGS

\* turn r has read its short-term window
WindowRead(r) ==
    /\ req[r].entry = "chat"
    /\ \/ req[r].pc \in WindowFresh \cup {"should_summarize", "respond"} \cup SummarySteps
       \/ req[r].pc = "done" /\ req[r].failed_at \notin {"save_user", "get_short_term"}

\* turn r has built its prompt
PromptBuilt(r) ==
    /\ req[r].entry = "chat"
    /\ \/ req[r].pc \in {"generate", "save_assistant", "should_summarize", "respond"}
                            \cup SummarySteps
       \/ req[r].pc = "done" /\ req[r].reply # None

\* the lines of the section of a prompt that opens with header
SectionLines(prompt, header) ==
    prompt[CHOOSE i \in 1..Len(prompt) : prompt[i].header = header].lines

\* C26: the window a turn fetched is never empty and holds between 1 and 16
\* Turns; its last element is the user Turn the same turn has just appended,
\* so the prompt has the current message both as the last line of the window
\* and as the current message; it never holds the turn's own assistant reply;
\* short_term_count of the snapshot is its length.
C26_WindowEndsWithOwnTurn ==
    \A r \in Slots :
        /\ WindowRead(r) =>
               LET window == req[r].short_term_messages
               IN  /\ Len(window) >= 1
                   /\ Len(window) <= SHORT_TERM_N
                   /\ window[Len(window)] = req[r].user_turn
                   /\ \A i \in 1..Len(window) :
                          ~(/\ window[i].role = "assistant"
                            /\ window[i].created_at > req[r].user_turn.created_at)
                   /\ MemoryUsed(r).short_term_count = Len(window)
        /\ PromptBuilt(r) =>
               LET lines == SectionLines(Prompt(r), "Recent conversation:")
               IN  /\ lines[Len(lines)] =
                          [prefix |-> "user", text |-> UserText(req[r].message)]
                   /\ SectionLines(Prompt(r), "User: ") =
                          <<[prefix |-> "", text |-> UserText(req[r].message)]>>

\* turn r has read both Digests
DigestsRead(r) ==
    /\ req[r].entry = "chat"
    /\ \/ req[r].pc \in PastExtraction \cup {"extract"}
       \/ req[r].pc = "done" /\ req[r].failed_at \notin {"save_user", "get_short_term",
                                  "get_session_summary", "get_lifetime_summary"}

\* the documents of a list created before turn r stored its user Turn
BeforeTurn(docs, r) ==
    SelectSeq(docs, LAMBDA d : d.created_at < req[r].user_turn.created_at)

\* the text of a Digest section of the prompt of turn r, None without one
PromptDigest(r, header) ==
    IF \E i \in 1..Len(Prompt(r)) : Prompt(r)[i].header = header
    THEN SectionLines(Prompt(r), header)[1].text
    ELSE None

\* C27: the session and lifetime Digest texts of a turn's snapshot and prompt
\* are the ones read before the turn's own summarization: they are the latest
\* Digests written before the turn began, those of the turn just before
\* included, and never a Digest the turn itself has written.
C27_SnapshotBeforeSummary ==
    \A r \in Slots :
        DigestsRead(r) =>
            LET session == LastInsertedText(
                               BeforeTurn(SessionDigests(req[r].user_id, req[r].session_id), r))
                lifetime == LastInsertedText(
                                BeforeTurn(LifetimeSummariesIn(summaries, req[r].user_id), r))
            IN  /\ MemoryUsed(r).session_summary = session
                /\ MemoryUsed(r).long_term_summary = lifetime
                /\ \A i \in 1..Len(summaries) :
                       summaries[i].created_at > req[r].user_turn.created_at =>
                           /\ summaries[i].text # MemoryUsed(r).session_summary
                           /\ summaries[i].text # MemoryUsed(r).long_term_summary
                /\ PromptBuilt(r) =>
                       /\ PromptDigest(r, "Session Context: ") = session
                       /\ PromptDigest(r, "User Profile: ") = lifetime

\* a turn whose snapshot holds the session Digest of an earlier turn has
\* written the next session Digest and a lifetime Digest, neither of which is
\* in its snapshot
C27_Witness ==
    /\ req[1].pc = "done"
    /\ req[1].status = STATUS_OK
    /\ req[1].called = {"generate_session_summary", "update_lifetime_summary"}
    /\ MemoryUsed(1).session_summary # None
    /\ MemoryUsed(1).long_term_summary = None
    /\ latest_session_summary(req[1].user_id, req[1].session_id) #
           MemoryUsed(1).session_summary
    /\ latest_lifetime_summary(req[1].user_id) # None

\* the Turns of a ledger with the given role
CountRole(ledger, role) == Len(SelectSeq(ledger, LAMBDA d : d.role = role))

\* a turn of (u, s) is between its two save_message calls
ReplyPending(u, s) ==
    \E r \in Slots : /\ req[r].user_id = u
                     /\ req[r].session_id = s
                     /\ req[r].pc \in WindowFresh \cup {"get_short_term"}

\* C28: with the turns of a session served one at a time and none failing, the
\* session's ledger alternates user, assistant, user, assistant, ... from a
\* user Turn on: the user Turns are 0 or 1 more than the assistant Turns, 1
\* exactly while a turn is between its two save_message calls, and 0 whenever
\* no turn is in progress.
C28_LedgerAlternates ==
    \A u \in Users, s \in Sessions :
        LET ledger == OrderedLedger(messages, u, s)
            ahead == CountRole(ledger, "user") - CountRole(ledger, "assistant")
        IN  /\ \A i \in 1..Len(ledger) :
                   ledger[i].role = IF i % 2 = 1 THEN "user" ELSE "assistant"
            /\ ahead \in {0, 1}
            /\ ahead = 1 <=> ReplyPending(u, s)
            /\ NoneRunning => ahead = 0

\* no turn is in progress, and two sessions hold three and two finished turns
C28_Witness ==
    /\ NoneRunning
    /\ served > 0
    /\ \E u \in Users, s, t \in Sessions :
           /\ s # t
           /\ Len(OrderedLedger(messages, u, s)) >= 6
           /\ Len(OrderedLedger(messages, u, t)) >= 4

\* the session Digests written since turn r stored its user Turn
DigestsOfTurn(r) ==
    SelectSeq(summaries, LAMBDA d : /\ d.scope = "session"
                                     /\ d.created_at > req[r].user_turn.created_at)

\* C29: the session Digest of a triggering turn is built from the last
\* min(n, 20) Turns of the session in chronological order, the turn's own user
\* Turn and assistant reply among them; the call writes exactly one Digest, of
\* session scope, with the turn's user_id and session_id.
C29_SummaryWindowHasOwnTurns ==
    /\ [](\A r \in Slots :
             (req[r].entry = "chat" /\ req[r].pc = "done" /\ req[r].status = STATUS_OK) =>
                 Len(DigestsOfTurn(r)) =
                     IF "generate_session_summary" \in req[r].called THEN 1 ELSE 0)
    /\ [][\A r \in Slots :
              /\ (/\ req[r].entry = "chat"
                  /\ req[r].pc = "summary_find"
                  /\ req'[r].pc = "summary_insert") =>
                     LET ledger == OrderedLedger(messages, req[r].user_id, req[r].session_id)
                         n == Len(ledger)
                         k == Min(n, SUMMARY_WINDOW)
                         recent_messages == req'[r].recent_messages
                         lines == SummaryConversation(recent_messages)
                     IN  /\ Len(lines) = k
                         /\ \A i \in 1..k :
                                lines[i] = [prefix |-> ledger[n - k + i].role,
                                            text |-> ledger[n - k + i].content]
                         /\ \E i \in 1..k : recent_messages[i] = req[r].user_turn
                         /\ \E i \in 1..k :
                                /\ IsTurn(recent_messages[i], r, "assistant", req[r].reply)
                                /\ recent_messages[i].created_at > req[r].user_turn.created_at
                         /\ UNCHANGED <<messages, summaries, episodes>>
              /\ (/\ req[r].entry = "chat"
                  /\ req[r].pc = "summary_insert"
                  /\ req'[r] # req[r]
                  /\ req'[r].failed_at = "") =>
                     /\ Len(summaries') = Len(summaries) + 1
                     /\ SubSeq(summaries', 1, Len(summaries)) = summaries
                     /\ summaries'[Len(summaries')].scope = "session"
                     /\ summaries'[Len(summaries')].user_id = req[r].user_id
                     /\ summaries'[Len(summaries')].session_id = req[r].session_id
                     /\ summaries'[Len(summaries')].text = req'[r].returned
                     /\ UNCHANGED <<messages, episodes>>]_vars

\* the fifteenth turn of a session has summarized the last 20 of its 30 Turns
\* and written the session's third Digest
C29_Witness ==
    /\ req[1].pc = "done"
    /\ req[1].status = STATUS_OK
    /\ "generate_session_summary" \in req[1].called
    /\ Len(req[1].recent_messages) = SUMMARY_WINDOW
    /\ Len(FindMessages(req[1].user_id, req[1].session_id)) > SUMMARY_WINDOW
    /\ req[1].recent_messages[1].content = req[1].reply
    /\ Len(DigestsOfTurn(1)) = 1
    /\ Len(SessionDigests(req[1].user_id, req[1].session_id)) = 3

\* the elements of a sequence
Range(q) == {q[i] : i \in 1..Len(q)}

\* C30: the ranker's candidates in a turn are exactly the Episodes stored for
\* the turn's user_id when it reads, whatever their session: the ranked facts
\* are Episodes of that user only, they are all of them when there are no more
\* than TOP_K_EPISODES, the ones just extracted from the current message and
\* the ones of the user's other sessions included, and otherwise none left out
\* is more similar than one that is returned.
C30_CandidatesAreUsersEpisodes ==
    \A r \in Slots :
        JustRanked(r) =>
            LET mine == {e \in Range(episodes) : e.user_id = req[r].user_id}
                ranked == Range(req[r].relevant_episodes)
                sim(e) == cosine_similarity_score(req[r].message_embedding, e.embedding)
            IN  /\ ranked \subseteq mine
                /\ \A e \in ranked : e.user_id = req[r].user_id
                /\ Cardinality(ranked) = Len(req[r].relevant_episodes)
                /\ Cardinality(ranked) = Min(Cardinality(mine), TOP_K_EPISODES)
                /\ Range(EpisodesAdded(r)) \subseteq mine
                /\ Cardinality(mine) <= TOP_K_EPISODES =>
                       /\ ranked = mine
                       /\ Range(EpisodesAdded(r)) \subseteq ranked
                /\ \A e \in mine \ ranked, f \in ranked : ~SimLess(sim(f), sim(e))

\* a turn ranked the two Episodes it has just extracted together with two of
\* its user's other session, while the store holds Episodes of another user
C30_Witness ==
    \E r \in Slots :
        /\ JustRanked(r)
        /\ Len(EpisodesAdded(r)) = 2
        /\ Range(EpisodesAdded(r)) \subseteq Range(req[r].relevant_episodes)
        /\ \E e \in Range(req[r].relevant_episodes) : e.session_id # req[r].session_id
        /\ \E e \in Range(episodes) : e.user_id # req[r].user_id
        /\ Len(req[r].relevant_episodes) = 4

====
